---- MODULE Spec2Model ----
(***************************************************************************)
(* Media-request queuing and state synchronisation of vidstack/elements.   *)
(*                                                                         *)
(* Three programs of the repository are modelled, selected by `impl`:      *)
(*   "queue"  a RequestQueue used on its own (as its unit tests do),       *)
(*   "media"  MediaProviderElement (src/src/media/provider) driving a      *)
(*            RequestQueue, with FakeMediaProviderElement as the engine,   *)
(*   "core"   the earlier MediaProviderElement (src/src/core/provider)     *)
(*            whose request queue is an inline Map.                        *)
(* All handlers run on the single UI thread, so each handler is one        *)
(* atomic action; asynchronous continuations are separate actions.         *)
(* Spec runs the three programs; SpecCtx runs the media provider with      *)
(* every context property written through the fake provider's accessors.   *)
(***************************************************************************)
EXTENDS Integers, Sequences, FiniteSets, TLC

\* ------------------------------------------------------------------------
\* Bounds
\* ------------------------------------------------------------------------

\* queue() calls remembered (and allowed) between two emptyings of a queue
MaxLog == 3
\* callers that may await waitForFlush() at the same time
NumWaiters == 2
\* intents a consumer may issue to a provider between two emptyings of its queue
MaxIntents == 2
\* asynchronous requests (fullscreen) that may be awaiting their promise at once
MaxInflight == 1
\* callers that may await the request queue of a provider at the same time
MaxProviderWaiters == 1

VARIABLES
  impl,            \* which program is running
  st,              \* the stores, their subscribers and the hosted subscription
  q,               \* the RequestQueue (stand-alone, or mediaRequestQueue)
  cq,              \* _connectedQueue of the media provider
  waiters,         \* waiter id -> "idle" | "pending" | "released"
  ctx,             \* the media context record
  connected,       \* the provider element is attached to the document
  hasFlushedOnce,  \* _hasFlushedMediaRequestQueueOnce
  flushResolved,   \* core: pendingRequestQueueFlush has been resolved
  inflight,        \* core: safelyMakeRequest calls awaiting an asynchronous action
  lastOp,          \* history: name of the handler that ran last
  invoked,         \* history: queue entries invoked by the last handler
  engine,          \* history: engine operations performed by the last handler
  log              \* history: queue() calls deferred since the queue was last
                   \* emptied; a flush leaves it readable until the next handler

vars == <<impl, st, q, cq, waiters, ctx, connected, hasFlushedOnce,
          flushResolved, inflight, lastOp, invoked, engine, log>>

\* ------------------------------------------------------------------------
\* Callbacks
\* ------------------------------------------------------------------------

\* A queued callback: the setter that created it and the value it captured.
Closure(setter, num, flag) == [setter |-> setter, num |-> num, flag |-> flag]

\* The anonymous callbacks the unit tests queue (itemA, itemB).
Fns == {Closure("f1", 0, FALSE), Closure("f2", 0, FALSE)}
QKeys == {"a", "b", "c"}

Entry(k, f) == [key |-> k, fn |-> f]

\* The callback of handleUserFullscreenChange is the only asynchronous one:
\* it awaits requestFullscreen() / exitFullscreen().
fullscreenRequest(shouldEnterFullscreen) ==
  Closure("fullscreen", 0, shouldEnterFullscreen)

IsAsync(f) == f.setter = "fullscreen"

\* ------------------------------------------------------------------------
\* Map (insertion-ordered, as a JavaScript Map)
\* ------------------------------------------------------------------------

MapHas(entries, k) == \E i \in DOMAIN entries : entries[i].key = k

MapSet_Append(entries, k, f) == Append(entries, Entry(k, f))

MapSet(entries, k, f) ==
  IF MapHas(entries, k)
    THEN [i \in DOMAIN entries |->
            IF entries[i].key = k THEN Entry(k, f) ELSE entries[i]]
    ELSE Append(entries, Entry(k, f))

MapDelete(entries, k) == SelectSeq(entries, LAMBDA e : e.key # k)

MapGet(entries, k) == SelectSeq(entries, LAMBDA e : e.key = k)

\* ------------------------------------------------------------------------
\* RequestQueue
\* ------------------------------------------------------------------------

NewRequestQueue ==
  [entries |-> <<>>, serveImmediately |-> FALSE, destroyed |-> FALSE]

\* Result of a queue operation: the new queue, the callbacks it invoked (in
\* order) and whether it released the waitForFlush() waiters.
Outcome(rq, inv, rel) == [rq |-> rq, invoked |-> inv, release |-> rel]

RQ_size(rq) == Len(rq.entries)

RQ_queue_IgnoresDestroyed(rq, k, f) ==
  IF rq.serveImmediately THEN Outcome(rq, <<Entry(k, f)>>, FALSE)
  ELSE IF rq.destroyed THEN Outcome(rq, <<>>, FALSE)
  ELSE Outcome([rq EXCEPT !.entries = MapSet(@, k, f)], <<>>, FALSE)

RQ_queue(rq, k, f) ==
  IF rq.destroyed THEN Outcome(rq, <<>>, FALSE)
  ELSE IF rq.serveImmediately THEN Outcome(rq, <<Entry(k, f)>>, FALSE)
  ELSE Outcome([rq EXCEPT !.entries = MapSet(@, k, f)], <<>>, FALSE)

RQ_serve_KeepsEntry(rq, k) ==
  IF rq.destroyed THEN Outcome(rq, <<>>, FALSE)
  ELSE Outcome(rq, MapGet(rq.entries, k), FALSE)

RQ_serve(rq, k) ==
  IF rq.destroyed THEN Outcome(rq, <<>>, FALSE)
  ELSE Outcome([rq EXCEPT !.entries = MapDelete(@, k)],
               MapGet(rq.entries, k), FALSE)

RQ_start(rq) ==
  IF rq.destroyed THEN Outcome(rq, <<>>, FALSE)
  ELSE Outcome([rq EXCEPT !.entries = <<>>, !.serveImmediately = TRUE],
               rq.entries, TRUE)

RQ_stop_Ignored(rq) == Outcome(rq, <<>>, FALSE)

RQ_stop(rq) ==
  IF rq.destroyed THEN Outcome(rq, <<>>, FALSE)
  ELSE Outcome([rq EXCEPT !.serveImmediately = FALSE], <<>>, FALSE)

RQ_reset(rq) ==
  IF rq.destroyed THEN Outcome(rq, <<>>, FALSE)
  ELSE Outcome([rq EXCEPT !.entries = <<>>], <<>>, FALSE)

RQ_destroy_Again(rq) ==
  Outcome([rq EXCEPT !.entries = <<>>, !.serveImmediately = FALSE,
                     !.destroyed = TRUE],
          <<>>, TRUE)

RQ_destroy(rq) ==
  IF rq.destroyed THEN Outcome(rq, <<>>, FALSE)
  ELSE Outcome([rq EXCEPT !.entries = <<>>, !.serveImmediately = FALSE,
                          !.destroyed = TRUE],
               <<>>, TRUE)

\* waitForFlush(): TRUE when the returned promise is already resolved.
RQ_waitForFlush(rq) == rq.serveImmediately \/ rq.destroyed

WaiterIds == 1..NumWaiters

\* The continuation of a caller whose promise was resolved runs before the
\* next handler: a released caller is no longer waiting when that handler
\* has run.
Settled(ws) ==
  [w \in DOMAIN ws |-> IF ws[w] = "released" THEN "idle" ELSE ws[w]]

Release_First(ws, rel) ==
  IF rel /\ \E w \in DOMAIN ws : ws[w] = "pending"
  THEN LET first == CHOOSE w \in DOMAIN ws :
                      /\ ws[w] = "pending"
                      /\ \A v \in DOMAIN ws : ws[v] = "pending" => w <= v
       IN [ws EXCEPT ![first] = "released"]
  ELSE ws

Release(ws, rel) ==
  IF rel THEN [w \in DOMAIN ws |-> IF ws[w] = "pending" THEN "released" ELSE ws[w]]
  ELSE ws

\* No safelyMakeRequest call is suspended: none made by makeRequest
\* ("request"), none made by flushRequestQueue ("flush").
NoneInflight == [request |-> 0, flush |-> 0]

\* The programs of the request queue and of the providers use no store.
NoStores == <<>>

\* ------------------------------------------------------------------------
\* History bookkeeping
\* ------------------------------------------------------------------------

\* Handlers that flush a queue.
FlushOps == {"start", "handleMediaReady", "handleMediaReady (again)",
             "handleCanPlay"}

\* The deferred calls that are still pending when a handler starts.  A flush
\* empties the queue, except that the core provider keeps an asynchronous
\* request in its map until the request settles.
CurLog ==
  IF lastOp \in FlushOps
    THEN IF impl = "core" THEN SelectSeq(log, LAMBDA e : IsAsync(e.fn)) ELSE <<>>
    ELSE log

LogQueue(rq, l, k, f) ==
  IF rq.destroyed \/ rq.serveImmediately THEN l ELSE Append(l, Entry(k, f))

CanLog(rq, l, max) == rq.destroyed \/ rq.serveImmediately \/ Len(l) < max

\* ------------------------------------------------------------------------
\* Media context
\* ------------------------------------------------------------------------

\* duration before any media is known (NaN); volumes are in hundredths.
NaN == -1
NoRanges == <<>>

\* Declared initial value of every stored context property.
InitialValue ==
  [ autoplay |-> FALSE, buffered |-> NoRanges, canPlay |-> FALSE,
    canPlayThrough |-> FALSE, canRequestFullscreen |-> FALSE,
    controls |-> FALSE, currentPoster |-> "", currentSrc |-> "",
    currentTime |-> 0, duration |-> NaN, ended |-> FALSE, error |-> "none",
    fullscreen |-> FALSE, live |-> FALSE, loop |-> FALSE,
    mediaType |-> "unknown", muted |-> FALSE, paused |-> TRUE,
    played |-> NoRanges, playing |-> FALSE, playsinline |-> FALSE,
    seekable |-> NoRanges, seeking |-> FALSE, started |-> FALSE,
    viewType |-> "unknown", volume |-> 100, waiting |-> FALSE ]

StoredProps == DOMAIN InitialValue

\* Properties computed from other properties; they cannot be assigned.
DerivedProps == {"isAudioView", "isVideoView", "bufferedAmount", "seekableAmount"}

\* Object.keys(mediaContext)
MediaContextKeys == StoredProps \cup DerivedProps

createMediaContextRecord == InitialValue

getMediaPropsToResetWhenSrcChanges_AndVolume ==
  { "buffered", "buffering", "canPlay", "canPlayThrough", "currentSrc",
    "currentTime", "duration", "ended", "mediaType", "paused", "canPlay",
    "played", "playing", "seekable", "seeking", "started", "waiting", "volume" }

getMediaPropsToResetWhenSrcChanges ==
  { "buffered", "buffering", "canPlay", "canPlayThrough", "currentSrc",
    "currentTime", "duration", "ended", "mediaType", "paused", "canPlay",
    "played", "playing", "seekable", "seeking", "started", "waiting" }

softResetMediaContext(c) ==
  [p \in DOMAIN c |->
     IF p \in MediaContextKeys /\ p \in getMediaPropsToResetWhenSrcChanges
       THEN InitialValue[p] ELSE c[p]]

\* ------------------------------------------------------------------------
\* Engine (FakeMediaProviderElement) and the callbacks of the setters
\* ------------------------------------------------------------------------

Max(a, b) == IF a > b THEN a ELSE b
Min(a, b) == IF a < b THEN a ELSE b
clampNumber(min, value, max) == Max(min, Min(max, value))

EngineOp(op, num, flag) == [op |-> op, num |-> num, flag |-> flag]

\* State of the provider while callbacks run: the context and the engine
\* operations performed so far.
Run(c, ops) == [ctx |-> c, ops |-> ops]

setVolume(r, volume) ==
  Run([r.ctx EXCEPT !.volume = volume],
      Append(r.ops, EngineOp("_setVolume", volume, FALSE)))

setCurrentTime(r, time) ==
  Run([r.ctx EXCEPT !.currentTime = time],
      Append(r.ops, EngineOp("_setCurrentTime", time, FALSE)))

setMuted(r, muted) ==
  Run([r.ctx EXCEPT !.muted = muted],
      Append(r.ops, EngineOp("_setMuted", 0, muted)))

play(r) ==
  Run([r.ctx EXCEPT !.paused = FALSE], Append(r.ops, EngineOp("play", 0, FALSE)))

pause(r) ==
  Run([r.ctx EXCEPT !.paused = TRUE], Append(r.ops, EngineOp("pause", 0, FALSE)))

\* The callback each setter hands to the queue.
volumeRequest(requestedVolume) == Closure("volume", requestedVolume, FALSE)
pausedRequest(shouldPause) == Closure("paused", 0, shouldPause)
currentTimeRequest(requestedTime) == Closure("currentTime", requestedTime, FALSE)
mutedRequest(shouldMute) == Closure("muted", 0, shouldMute)
contextUpdateRequest(ctxProp, newValue) ==
  [setter |-> "contextUpdate", prop |-> ctxProp, value |-> newValue]

pausedCallback_Inverted(r, shouldPause) == IF shouldPause THEN play(r) ELSE pause(r)

\* The callback of the `paused` setter.
pausedCallback(r, shouldPause) == IF ~shouldPause THEN play(r) ELSE pause(r)

\* Invoking one callback.
Call(r, f) ==
  CASE f.setter = "volume" -> setVolume(r, clampNumber(0, f.num, 100))
    [] f.setter = "paused" -> pausedCallback(r, f.flag)
    [] f.setter = "currentTime" -> setCurrentTime(r, f.num)
    [] f.setter = "muted" -> setMuted(r, f.flag)
    [] f.setter = "contextUpdate" ->
         Run([r.ctx EXCEPT ![f.prop] = f.value], r.ops)
    [] OTHER -> r

RECURSIVE CallAll(_, _)
CallAll(r, entries) ==
  IF entries = <<>> THEN r
  ELSE CallAll(Call(r, Head(entries).fn), Tail(entries))

\* ------------------------------------------------------------------------
\* Program "queue": a RequestQueue driven directly
\* ------------------------------------------------------------------------

InitQueue ==
  /\ impl = "queue"
  /\ st = NoStores
  /\ q = NewRequestQueue
  /\ cq = NewRequestQueue
  /\ waiters = [w \in WaiterIds |-> "idle"]
  /\ ctx = createMediaContextRecord
  /\ connected = FALSE
  /\ hasFlushedOnce = FALSE
  /\ flushResolved = FALSE
  /\ inflight = NoneInflight
  /\ lastOp = "new"
  /\ invoked = <<>>
  /\ engine = <<>>
  /\ log = <<>>

QQueue(k, f) ==
  /\ impl = "queue"
  /\ CanLog(q, CurLog, MaxLog)
  /\ LET r == RQ_queue(q, k, f) IN
       /\ q' = r.rq
       /\ invoked' = r.invoked
       /\ waiters' = Release(Settled(waiters), r.release)
  /\ log' = LogQueue(q, CurLog, k, f)
  /\ lastOp' = "queue"
  /\ UNCHANGED <<impl, st, cq, ctx, connected, hasFlushedOnce, flushResolved, inflight, engine>>

QServe(k) ==
  /\ impl = "queue"
  /\ LET r == RQ_serve(q, k) IN
       /\ q' = r.rq
       /\ invoked' = r.invoked
       /\ waiters' = Release(Settled(waiters), r.release)
  /\ log' = IF q.destroyed THEN CurLog ELSE MapDelete(CurLog, k)
  /\ lastOp' = "serve"
  /\ UNCHANGED <<impl, st, cq, ctx, connected, hasFlushedOnce, flushResolved, inflight, engine>>

QStart ==
  /\ impl = "queue"
  /\ LET r == RQ_start(q) IN
       /\ q' = r.rq
       /\ invoked' = r.invoked
       /\ waiters' = Release(Settled(waiters), r.release)
  /\ log' = CurLog
  /\ lastOp' = "start"
  /\ UNCHANGED <<impl, st, cq, ctx, connected, hasFlushedOnce, flushResolved, inflight, engine>>

QStop ==
  /\ impl = "queue"
  /\ LET r == RQ_stop(q) IN
       /\ q' = r.rq
       /\ invoked' = r.invoked
       /\ waiters' = Release(Settled(waiters), r.release)
  /\ log' = CurLog
  /\ lastOp' = "stop"
  /\ UNCHANGED <<impl, st, cq, ctx, connected, hasFlushedOnce, flushResolved, inflight, engine>>

QReset ==
  /\ impl = "queue"
  /\ LET r == RQ_reset(q) IN
       /\ q' = r.rq
       /\ invoked' = r.invoked
       /\ waiters' = Release(Settled(waiters), r.release)
  /\ log' = <<>>
  /\ lastOp' = "reset"
  /\ UNCHANGED <<impl, st, cq, ctx, connected, hasFlushedOnce, flushResolved, inflight, engine>>

QDestroy ==
  /\ impl = "queue"
  /\ LET r == RQ_destroy(q) IN
       /\ q' = r.rq
       /\ invoked' = r.invoked
       /\ waiters' = Release(Settled(waiters), r.release)
  /\ log' = <<>>
  /\ lastOp' = "destroy"
  /\ UNCHANGED <<impl, st, cq, ctx, connected, hasFlushedOnce, flushResolved, inflight, engine>>

QWaitForFlush(w) ==
  /\ impl \in {"queue", "media"}
  /\ impl = "media" => w <= MaxProviderWaiters
  /\ waiters[w] = "idle"
  /\ waiters' = [Settled(waiters) EXCEPT ![w] =
                   IF RQ_waitForFlush(q) THEN "released" ELSE "pending"]
  /\ invoked' = <<>>
  /\ log' = CurLog
  /\ lastOp' = "waitForFlush"
  /\ UNCHANGED <<impl, st, q, cq, ctx, connected, hasFlushedOnce, flushResolved, inflight, engine>>

\* The awaiting caller resumes after its promise resolved.
QResume(w) ==
  /\ impl \in {"queue", "media"}
  /\ waiters[w] = "released"
  /\ waiters' = [Settled(waiters) EXCEPT ![w] = "idle"]
  /\ invoked' = <<>>
  /\ log' = CurLog
  /\ lastOp' = "resume"
  /\ UNCHANGED <<impl, st, q, cq, ctx, connected, hasFlushedOnce, flushResolved, inflight, engine>>

NextQueue ==
  \/ \E k \in QKeys, f \in Fns : QQueue(k, f)
  \/ \E k \in QKeys : QServe(k)
  \/ QStart
  \/ QStop
  \/ QReset
  \/ QDestroy
  \/ \E w \in WaiterIds : QWaitForFlush(w)
  \/ \E w \in WaiterIds : QResume(w)

\* ------------------------------------------------------------------------
\* Program "media": MediaProviderElement with the fake engine
\* ------------------------------------------------------------------------

RequestedVolumes == {53, 150}
RequestedTimes == {42}
Durations == {200}
CoreVolumes == {53}
CoreMuted == {TRUE}

InitMedia ==
  /\ impl = "media"
  /\ st = NoStores
  /\ q = NewRequestQueue
  /\ cq = NewRequestQueue
  /\ waiters = [w \in WaiterIds |-> "idle"]
  /\ ctx = createMediaContextRecord
  /\ connected = FALSE
  /\ hasFlushedOnce = FALSE
  /\ flushResolved = FALSE
  /\ inflight = NoneInflight
  /\ lastOp = "new"
  /\ invoked = <<>>
  /\ engine = <<>>
  /\ log = <<>>

MakeMediaRequest_AlwaysDefer(op, k, f) ==
  /\ impl = "media"
  /\ CanLog(q, CurLog, MaxIntents)
  /\ q' = [q EXCEPT !.entries = MapSet(@, k, f)]
  /\ invoked' = <<>>
  /\ engine' = <<>>
  /\ log' = LogQueue(q, CurLog, k, f)
  /\ lastOp' = op
  /\ waiters' = Settled(waiters)
  /\ UNCHANGED <<impl, st, cq, ctx, connected, hasFlushedOnce, flushResolved, inflight>>

\* this.mediaRequestQueue.queue(key, callback), as every setter does.
MakeMediaRequest(op, k, f) ==
  /\ impl = "media"
  /\ CanLog(q, CurLog, MaxIntents)
  /\ LET r == RQ_queue(q, k, f)
         run == CallAll(Run(ctx, <<>>), r.invoked) IN
       /\ q' = r.rq
       /\ invoked' = r.invoked
       /\ waiters' = Release(Settled(waiters), r.release)
       /\ ctx' = run.ctx
       /\ engine' = run.ops
  /\ log' = LogQueue(q, CurLog, k, f)
  /\ lastOp' = op
  /\ UNCHANGED <<impl, st, cq, connected, hasFlushedOnce, flushResolved, inflight>>

SetVolume(requestedVolume) ==
  MakeMediaRequest("set volume", "volume", volumeRequest(requestedVolume))

SetPaused(shouldPause) ==
  MakeMediaRequest("set paused", "paused", pausedRequest(shouldPause))

SetCurrentTime(requestedTime) ==
  MakeMediaRequest("set currentTime", "time", currentTimeRequest(requestedTime))

SetMuted(shouldMute) ==
  MakeMediaRequest("set muted", "muted", mutedRequest(shouldMute))

handleMediaReady_NoFlush(c, rq) ==
  [ctx |-> [c EXCEPT !.canPlay = TRUE], ops |-> <<>>, invoked |-> <<>>,
   rq |-> [rq EXCEPT !.serveImmediately = TRUE], release |-> FALSE]

\* _handleMediaReady applied to a provider state.
handleMediaReady(c, rq) ==
  LET r == RQ_start(rq)
      run == CallAll(Run([c EXCEPT !.canPlay = TRUE], <<>>), r.invoked) IN
    [ctx |-> run.ctx, ops |-> run.ops, invoked |-> r.invoked,
     rq |-> [r.rq EXCEPT !.serveImmediately = TRUE], release |-> r.release]

\* forceMediaReady(): the engine reports that it can play.
HandleMediaReady ==
  /\ impl = "media"
  /\ connected
  /\ LET r == handleMediaReady(ctx, q) IN
       /\ ctx' = r.ctx
       /\ q' = r.rq
       /\ invoked' = r.invoked
       /\ engine' = r.ops
       /\ waiters' = Release(Settled(waiters), r.release)
  /\ log' = CurLog
  /\ lastOp' = IF q.serveImmediately THEN "handleMediaReady (again)"
               ELSE "handleMediaReady"
  /\ UNCHANGED <<impl, st, cq, connected, hasFlushedOnce, flushResolved, inflight>>

HandleMediaSrcChange_AlwaysReset ==
  /\ impl = "media"
  /\ connected
  /\ q' = RQ_reset([q EXCEPT !.serveImmediately = FALSE]).rq
  /\ ctx' = softResetMediaContext(ctx)
  /\ log' = <<>>
  /\ hasFlushedOnce' = TRUE
  /\ invoked' = <<>>
  /\ engine' = <<>>
  /\ lastOp' = IF ~hasFlushedOnce THEN "handleMediaSrcChange (first)"
               ELSE "handleMediaSrcChange"
  /\ waiters' = Settled(waiters)
  /\ UNCHANGED <<impl, st, cq, connected, flushResolved, inflight>>

HandleMediaSrcChange_KeepsPending ==
  /\ impl = "media"
  /\ connected
  /\ IF ~hasFlushedOnce
       THEN /\ hasFlushedOnce' = TRUE
            /\ log' = CurLog
            /\ UNCHANGED <<q, ctx>>
       ELSE /\ q' = [q EXCEPT !.serveImmediately = FALSE]
            /\ ctx' = softResetMediaContext(ctx)
            /\ log' = CurLog
            /\ UNCHANGED hasFlushedOnce
  /\ invoked' = <<>>
  /\ engine' = <<>>
  /\ lastOp' = IF ~hasFlushedOnce THEN "handleMediaSrcChange (first)"
               ELSE "handleMediaSrcChange"
  /\ waiters' = Settled(waiters)
  /\ UNCHANGED <<impl, st, cq, connected, flushResolved, inflight>>

HandleMediaSrcChange ==
  /\ impl = "media"
  /\ connected
  /\ IF ~hasFlushedOnce
       THEN /\ hasFlushedOnce' = TRUE
            /\ log' = CurLog
            /\ UNCHANGED <<q, ctx>>
       ELSE /\ q' = RQ_reset([q EXCEPT !.serveImmediately = FALSE]).rq
            /\ ctx' = softResetMediaContext(ctx)
            /\ log' = <<>>
            /\ UNCHANGED hasFlushedOnce
  /\ invoked' = <<>>
  /\ engine' = <<>>
  /\ lastOp' = IF ~hasFlushedOnce THEN "handleMediaSrcChange (first)"
               ELSE "handleMediaSrcChange"
  /\ waiters' = Settled(waiters)
  /\ UNCHANGED <<impl, st, cq, connected, flushResolved, inflight>>

\* HlsElement: a loaded level only counts while the media is not ready, and
\* then only announces the media type and the duration.
HandleHlsLevelLoaded ==
  /\ impl = "media"
  /\ connected
  /\ log' = CurLog
  /\ invoked' = <<>>
  /\ engine' = <<>>
  /\ lastOp' = IF ctx.canPlay THEN "handleHlsLevelLoaded (ignored)"
               ELSE "handleHlsLevelLoaded"
  /\ waiters' = Settled(waiters)
  /\ UNCHANGED <<impl, st, q, cq, ctx, connected, hasFlushedOnce, flushResolved, inflight>>

HandleFullscreenChange(detail) ==
  /\ impl = "media"
  /\ connected
  /\ ctx' = [ctx EXCEPT !.fullscreen = detail]
  /\ log' = CurLog
  /\ invoked' = <<>>
  /\ engine' = <<>>
  /\ lastOp' = "handleFullscreenChange"
  /\ waiters' = Settled(waiters)
  /\ UNCHANGED <<impl, st, q, cq, connected, hasFlushedOnce, flushResolved, inflight>>

\* The `${ctxProp}Context` accessor of the fake provider; the update is
\* queued on _connectedQueue under the key of the property.
SetContext(ctxProp, newValue) ==
  /\ impl = "media"
  /\ LET r == RQ_queue(cq, ctxProp, contextUpdateRequest(ctxProp, newValue))
         run == CallAll(Run(ctx, <<>>), r.invoked) IN
       /\ cq' = r.rq
       /\ ctx' = run.ctx
  /\ log' = CurLog
  /\ invoked' = <<>>
  /\ engine' = <<>>
  /\ lastOp' = "set context"
  /\ waiters' = Settled(waiters)
  /\ UNCHANGED <<impl, st, q, connected, hasFlushedOnce, flushResolved, inflight>>

ConnectedCallback ==
  /\ impl = "media"
  /\ ~connected
  /\ connected' = TRUE
  /\ LET c == RQ_start(cq)
         run == CallAll(Run(ctx, <<>>), c.invoked)
         ready == handleMediaReady(run.ctx, q) IN
       /\ cq' = [c.rq EXCEPT !.serveImmediately = TRUE]
       /\ IF run.ctx.canPlay
            THEN /\ ctx' = ready.ctx
                 /\ q' = ready.rq
                 /\ invoked' = ready.invoked
                 /\ engine' = ready.ops
                 /\ waiters' = Release(Settled(waiters), ready.release)
                 /\ lastOp' = IF q.serveImmediately THEN "handleMediaReady (again)"
                              ELSE "handleMediaReady"
            ELSE /\ ctx' = run.ctx
                 /\ invoked' = <<>>
                 /\ engine' = <<>>
                 /\ lastOp' = "connectedCallback"
                 /\ waiters' = Settled(waiters) /\ UNCHANGED q
  /\ log' = CurLog
  /\ UNCHANGED <<impl, st, hasFlushedOnce, flushResolved, inflight>>

DisconnectedCallback_NoDestroy ==
  /\ impl = "media"
  /\ connected
  /\ connected' = FALSE
  /\ cq' = RQ_destroy(cq).rq
  /\ hasFlushedOnce' = FALSE
  /\ log' = CurLog
  /\ invoked' = <<>>
  /\ engine' = <<>>
  /\ lastOp' = "disconnectedCallback"
  /\ waiters' = Settled(waiters)
  /\ UNCHANGED <<impl, st, q, ctx, flushResolved, inflight>>

DisconnectedCallback_Flush ==
  /\ impl = "media"
  /\ connected
  /\ connected' = FALSE
  /\ cq' = RQ_destroy(cq).rq
  /\ LET r == RQ_destroy(q) IN
       /\ q' = r.rq
       /\ waiters' = Release(Settled(waiters), r.release)
  /\ hasFlushedOnce' = FALSE
  /\ log' = <<>>
  /\ invoked' = q.entries
  /\ engine' = <<>>
  /\ lastOp' = "disconnectedCallback"
  /\ UNCHANGED <<impl, st, ctx, flushResolved, inflight>>

DisconnectedCallback ==
  /\ impl = "media"
  /\ connected
  /\ connected' = FALSE
  /\ cq' = RQ_destroy(cq).rq
  /\ LET r == RQ_destroy(q) IN
       /\ q' = r.rq
       /\ waiters' = Release(Settled(waiters), r.release)
  /\ hasFlushedOnce' = FALSE
  /\ log' = <<>>
  /\ invoked' = <<>>
  /\ engine' = <<>>
  /\ lastOp' = "disconnectedCallback"
  /\ UNCHANGED <<impl, st, ctx, flushResolved, inflight>>

NextMedia ==
  \/ \E v \in RequestedVolumes : SetVolume(v)
  \/ \E b \in BOOLEAN : SetPaused(b)
  \/ \E t \in RequestedTimes : SetCurrentTime(t)
  \/ \E b \in BOOLEAN : SetMuted(b)
  \/ HandleMediaReady
  \/ HandleMediaSrcChange
  \/ HandleHlsLevelLoaded
  \/ \E b \in BOOLEAN : HandleFullscreenChange(b)
  \/ \E d \in Durations : SetContext("duration", d)
  \/ ConnectedCallback
  \/ DisconnectedCallback

\* ------------------------------------------------------------------------
\* Program "core": MediaProviderElement with the inline request queue
\* ------------------------------------------------------------------------

\* Invoking one callback on the abstract engine of the core provider.
CoreCall(ops, f) ==
  CASE f.setter = "volume" -> Append(ops, EngineOp("setVolume", f.num, FALSE))
    [] f.setter = "paused" ->
         Append(ops, EngineOp(IF ~f.flag THEN "play" ELSE "pause", 0, FALSE))
    [] f.setter = "currentTime" -> Append(ops, EngineOp("setCurrentTime", f.num, FALSE))
    [] f.setter = "muted" -> Append(ops, EngineOp("setMuted", 0, f.flag))
    [] f.setter = "fullscreen" ->
         Append(ops, EngineOp(IF f.flag THEN "requestFullscreen"
                              ELSE "exitFullscreen", 0, FALSE))
    [] OTHER -> ops

RECURSIVE CoreCallAll(_, _)
CoreCallAll(ops, entries) ==
  IF entries = <<>> THEN ops
  ELSE CoreCallAll(CoreCall(ops, Head(entries).fn), Tail(entries))

hardResetMediaContext(c) ==
  [p \in DOMAIN c |->
     IF p \in MediaContextKeys /\ p \notin DerivedProps
       THEN InitialValue[p] ELSE c[p]]

makeRequest_Eager(entries, canPlay, requestKey, request) ==
  LET set == MapSet(entries, requestKey, request) IN
    [entries |-> MapDelete(set, requestKey), invoked |-> MapGet(set, requestKey)]

\* makeRequest: the entries left in the map and the entries invoked.
makeRequest(entries, canPlay, requestKey, request) ==
  LET set == MapSet(entries, requestKey, request) IN
    IF ~canPlay THEN [entries |-> set, invoked |-> <<>>]
    ELSE [entries |-> MapDelete(set, requestKey),
          invoked |-> MapGet(set, requestKey)]

flushRequestQueue_Reversed(entries) ==
  [invoked |-> [i \in DOMAIN entries |-> entries[Len(entries) + 1 - i]],
   entries |-> SelectSeq(entries, LAMBDA e : IsAsync(e.fn))]

\* flushRequestQueue up to its await: every request is invoked in the order
\* of the map's keys; the synchronous ones are deleted by their continuation
\* before any other handler runs, the asynchronous ones stay until they settle.
flushRequestQueue(entries) ==
  [invoked |-> entries,
   entries |-> SelectSeq(entries, LAMBDA e : IsAsync(e.fn))]

InitCore ==
  /\ impl = "core"
  /\ st = NoStores
  /\ q = NewRequestQueue
  /\ cq = NewRequestQueue
  /\ waiters = [w \in WaiterIds |-> "idle"]
  /\ ctx = createMediaContextRecord
  /\ connected = FALSE
  /\ hasFlushedOnce = FALSE
  /\ flushResolved = FALSE
  /\ inflight = NoneInflight
  /\ lastOp = "new"
  /\ invoked = <<>>
  /\ engine = <<>>
  /\ log = <<>>

CoreMakeRequest(op, k, f) ==
  /\ impl = "core"
  /\ ctx.canPlay \/ Len(CurLog) < MaxIntents
  /\ (ctx.canPlay /\ IsAsync(f)) => inflight.request + inflight.flush < MaxInflight
  /\ LET r == makeRequest(q.entries, ctx.canPlay, k, f) IN
       /\ q' = [q EXCEPT !.entries = r.entries]
       /\ invoked' = r.invoked
       /\ engine' = CoreCallAll(<<>>, r.invoked)
  /\ inflight' = IF ctx.canPlay /\ IsAsync(f)
                   THEN [inflight EXCEPT !.request = @ + 1] ELSE inflight
  /\ log' = IF ctx.canPlay THEN MapDelete(CurLog, k) ELSE Append(CurLog, Entry(k, f))
  /\ lastOp' = op
  /\ waiters' = Settled(waiters)
  /\ UNCHANGED <<impl, st, cq, ctx, connected, hasFlushedOnce, flushResolved>>

CoreSetVolume(requestedVolume) ==
  CoreMakeRequest("set volume", "volume", volumeRequest(requestedVolume))

CoreSetPaused(shouldPause) ==
  CoreMakeRequest("set paused", "paused", pausedRequest(shouldPause))

CoreSetCurrentTime(requestedTime) ==
  CoreMakeRequest("set currentTime", "time", currentTimeRequest(requestedTime))

CoreSetMuted(shouldMute) ==
  CoreMakeRequest("set muted", "muted", mutedRequest(shouldMute))

HandleUserFullscreenChange(shouldEnterFullscreen) ==
  CoreMakeRequest("handleUserFullscreenChange", "fullscreen",
                  fullscreenRequest(shouldEnterFullscreen))

\* The engine reports that it can play: the provider becomes ready and
\* flushes its queue.
CoreHandleCanPlay ==
  /\ impl = "core"
  /\ connected
  /\ LET r == flushRequestQueue(q.entries) IN
       /\ r.entries # <<>> => inflight.request + inflight.flush < MaxInflight
       /\ invoked' = r.invoked
       /\ engine' = CoreCallAll(<<>>, r.invoked)
       /\ q' = [q EXCEPT !.entries = r.entries]
       /\ IF r.entries = <<>>
            THEN /\ flushResolved' = TRUE
                 /\ waiters' = Release(Settled(waiters), TRUE)
                 /\ UNCHANGED inflight
            ELSE /\ inflight' = [inflight EXCEPT !.flush = @ + 1]
                 /\ waiters' = Settled(waiters) /\ UNCHANGED flushResolved
  /\ ctx' = [ctx EXCEPT !.canPlay = TRUE]
  /\ log' = CurLog
  /\ lastOp' = "handleCanPlay"
  /\ UNCHANGED <<impl, st, cq, connected, hasFlushedOnce>>

\* The promise of an asynchronous request settles and safelyMakeRequest
\* resumes; a rejection is recorded in the context.  When the request was
\* made by flushRequestQueue, the flush then completes.
SafelyMakeRequestResume(kind, rejected) ==
  /\ impl = "core"
  /\ inflight[kind] > 0
  /\ inflight' = [inflight EXCEPT ![kind] = @ - 1]
  /\ ctx' = IF rejected THEN [ctx EXCEPT !.error = "error"] ELSE ctx
  /\ IF kind = "flush"
       THEN /\ q' = [q EXCEPT !.entries = <<>>]
            /\ log' = <<>>
            /\ flushResolved' = TRUE
            /\ waiters' = Release(Settled(waiters), TRUE)
       ELSE /\ q' = [q EXCEPT !.entries = MapDelete(@, "fullscreen")]
            /\ log' = MapDelete(CurLog, "fullscreen")
            /\ waiters' = Settled(waiters) /\ UNCHANGED flushResolved
  /\ invoked' = <<>>
  /\ engine' = <<>>
  /\ lastOp' = IF kind = "flush" THEN "flushRequestQueue (resumed)"
               ELSE "safelyMakeRequest (resumed)"
  /\ UNCHANGED <<impl, st, cq, connected, hasFlushedOnce>>

\* A new source is assigned: the per-resource context is reset.
CoreHandleSrcChange ==
  /\ impl = "core"
  /\ connected
  /\ ctx' = softResetMediaContext(ctx)
  /\ log' = CurLog
  /\ invoked' = <<>>
  /\ engine' = <<>>
  /\ lastOp' = "handleSrcChange"
  /\ waiters' = Settled(waiters)
  /\ UNCHANGED <<impl, st, q, cq, connected, hasFlushedOnce, flushResolved, inflight>>

CoreWaitForRequestQueueToFlush_AlwaysAwaits(w) ==
  /\ impl = "core"
  /\ w <= MaxProviderWaiters
  /\ waiters[w] = "idle"
  /\ waiters' = [Settled(waiters) EXCEPT ![w] =
                   IF flushResolved THEN "released" ELSE "pending"]
  /\ log' = CurLog
  /\ invoked' = <<>>
  /\ engine' = <<>>
  /\ lastOp' = "waitForRequestQueueToFlush"
  /\ UNCHANGED <<impl, st, q, cq, ctx, connected, hasFlushedOnce, flushResolved, inflight>>

CoreWaitForRequestQueueToFlush(w) ==
  /\ impl = "core"
  /\ w <= MaxProviderWaiters
  /\ waiters[w] = "idle"
  /\ waiters' = [Settled(waiters) EXCEPT ![w] =
                   IF ctx.canPlay \/ flushResolved THEN "released" ELSE "pending"]
  /\ log' = CurLog
  /\ invoked' = <<>>
  /\ engine' = <<>>
  /\ lastOp' = "waitForRequestQueueToFlush"
  /\ UNCHANGED <<impl, st, q, cq, ctx, connected, hasFlushedOnce, flushResolved, inflight>>

CoreResume(w) ==
  /\ impl = "core"
  /\ waiters[w] = "released"
  /\ waiters' = [Settled(waiters) EXCEPT ![w] = "idle"]
  /\ log' = CurLog
  /\ invoked' = <<>>
  /\ engine' = <<>>
  /\ lastOp' = "resume"
  /\ UNCHANGED <<impl, st, q, cq, ctx, connected, hasFlushedOnce, flushResolved, inflight>>

CoreConnectedCallback ==
  /\ impl = "core"
  /\ ~connected
  /\ connected' = TRUE
  /\ log' = CurLog
  /\ invoked' = <<>>
  /\ engine' = <<>>
  /\ lastOp' = "connectedCallback"
  /\ waiters' = Settled(waiters)
  /\ UNCHANGED <<impl, st, q, cq, ctx, hasFlushedOnce, flushResolved, inflight>>

CoreDisconnectedCallback_NoResolve ==
  /\ impl = "core"
  /\ connected
  /\ connected' = FALSE
  /\ q' = [q EXCEPT !.entries = <<>>]
  /\ flushResolved' = FALSE
  /\ ctx' = [hardResetMediaContext(ctx) EXCEPT !.viewType = "unknown"]
  /\ log' = <<>>
  /\ invoked' = <<>>
  /\ engine' = <<>>
  /\ lastOp' = "disconnectedCallback"
  /\ waiters' = Settled(waiters)
  /\ UNCHANGED <<impl, st, cq, hasFlushedOnce, inflight>>

\* disconnectedCallback: resetRequestQueue() and hardResetMediaContext().
CoreDisconnectedCallback ==
  /\ impl = "core"
  /\ connected
  /\ connected' = FALSE
  /\ q' = [q EXCEPT !.entries = <<>>]
  /\ waiters' = Release(Settled(waiters), TRUE)
  /\ flushResolved' = FALSE
  /\ ctx' = [hardResetMediaContext(ctx) EXCEPT !.viewType = "unknown"]
  /\ log' = <<>>
  /\ invoked' = <<>>
  /\ engine' = <<>>
  /\ lastOp' = "disconnectedCallback"
  /\ UNCHANGED <<impl, st, cq, hasFlushedOnce, inflight>>

NextCore ==
  \/ \E v \in CoreVolumes : CoreSetVolume(v)
  \/ \E b \in BOOLEAN : CoreSetPaused(b)
  \/ \E t \in RequestedTimes : CoreSetCurrentTime(t)
  \/ \E b \in CoreMuted : CoreSetMuted(b)
  \/ \E b \in BOOLEAN : HandleUserFullscreenChange(b)
  \/ CoreHandleCanPlay
  \/ \E kind \in {"request", "flush"}, rejected \in BOOLEAN :
       SafelyMakeRequestResume(kind, rejected)
  \/ CoreHandleSrcChange
  \/ \E w \in WaiterIds : CoreWaitForRequestQueueToFlush(w)
  \/ \E w \in WaiterIds : CoreResume(w)
  \/ CoreConnectedCallback
  \/ CoreDisconnectedCallback

Init == InitQueue \/ InitMedia \/ InitCore

Next == NextQueue \/ NextMedia \/ NextCore

Spec == Init /\ [][Next]_vars

\* ------------------------------------------------------------------------
\* Failing requests
\* ------------------------------------------------------------------------

\* Keys of the requests whose callback calls the engine synchronously and
\* may therefore throw inside safelyMakeRequest's try block.
ThrowingKeys == {"volume", "time", "muted"}

NoRequestsMade == [invoked |-> <<>>, error |-> FALSE]

RECURSIVE safelyMakeRequests_Rethrow(_, _, _)
safelyMakeRequests_Rethrow(acc, entries, throwing) ==
  IF entries = <<>> THEN acc
  ELSE LET e == Head(entries)
           made == [acc EXCEPT !.invoked = Append(@, e)] IN
         IF e.key = throwing THEN made
         ELSE safelyMakeRequests_Rethrow(made, Tail(entries), throwing)

\* requests.map(reqKey => this.safelyMakeRequest(reqKey)): every request is
\* invoked in turn; the one under the key `throwing` throws, which the catch
\* block of safelyMakeRequest turns into a recorded error.
RECURSIVE safelyMakeRequests(_, _, _)
safelyMakeRequests(acc, entries, throwing) ==
  IF entries = <<>> THEN acc
  ELSE LET e == Head(entries) IN
         safelyMakeRequests([invoked |-> Append(acc.invoked, e),
                             error |-> acc.error \/ e.key = throwing],
                            Tail(entries), throwing)

\* The engine reports that it can play and the queued request under the key
\* `throwing` throws during the flush.
CoreHandleCanPlayThrows(throwing) ==
  /\ impl = "core"
  /\ connected
  /\ MapHas(q.entries, throwing)
  /\ LET r == safelyMakeRequests(NoRequestsMade, q.entries, throwing)
         left == flushRequestQueue(q.entries).entries IN
       /\ left # <<>> => inflight.request + inflight.flush < MaxInflight
       /\ invoked' = r.invoked
       /\ engine' = CoreCallAll(<<>>, r.invoked)
       /\ q' = [q EXCEPT !.entries = left]
       /\ ctx' = [ctx EXCEPT !.canPlay = TRUE,
                             !.error = IF r.error THEN "error" ELSE @]
       /\ IF left = <<>>
            THEN /\ flushResolved' = TRUE
                 /\ waiters' = Release(Settled(waiters), TRUE)
                 /\ UNCHANGED inflight
            ELSE /\ inflight' = [inflight EXCEPT !.flush = @ + 1]
                 /\ waiters' = Settled(waiters) /\ UNCHANGED flushResolved
  /\ log' = CurLog
  /\ lastOp' = "handleCanPlay (throws)"
  /\ UNCHANGED <<impl, st, cq, connected, hasFlushedOnce>>

\* Steps that flush the deferred requests of a provider.
ProviderFlushOps == {"handleMediaReady", "handleCanPlay", "handleCanPlay (throws)"}

\* The promise returned by the play() of a flushed "paused" request is
\* rejected (autoplay policy).  The callback of the paused setter does not
\* return that promise, so neither the await in safelyMakeRequest nor any
\* other handler of the provider receives the rejection.
PlayRejected ==
  /\ impl \in {"media", "core"}
  /\ lastOp \in ProviderFlushOps
  /\ \E i \in DOMAIN engine : engine[i].op = "play"
  /\ log' = CurLog
  /\ invoked' = <<>>
  /\ engine' = <<>>
  /\ lastOp' = "play (rejected)"
  /\ waiters' = Settled(waiters)
  /\ UNCHANGED <<impl, st, q, cq, ctx, connected, hasFlushedOnce, flushResolved, inflight>>

NextFail ==
  \/ NextMedia
  \/ \E v \in CoreVolumes : CoreSetVolume(v)
  \/ \E b \in BOOLEAN : CoreSetPaused(b)
  \/ \E t \in RequestedTimes : CoreSetCurrentTime(t)
  \/ \E b \in CoreMuted : CoreSetMuted(b)
  \/ \E b \in BOOLEAN : HandleUserFullscreenChange(b)
  \/ CoreHandleCanPlay
  \/ \E throwing \in ThrowingKeys : CoreHandleCanPlayThrows(throwing)
  \/ \E kind \in {"request", "flush"}, rejected \in BOOLEAN :
       SafelyMakeRequestResume(kind, rejected)
  \/ PlayRejected
  \/ CoreHandleSrcChange
  \/ CoreConnectedCallback
  \/ CoreDisconnectedCallback

\* The two providers with requests that fail.
SpecFail == (InitMedia \/ InitCore) /\ [][NextFail]_vars

\* ------------------------------------------------------------------------
\* The context record under arbitrary engine updates
\* ------------------------------------------------------------------------

\* context properties that may differ from their initial value at once
MaxDirty == 3
\* context updates that may be queued before the provider is connected
MaxPendingUpdates == 1

\* A value other than the initial one, for every stored property.
AltValue ==
  [ autoplay |-> TRUE, buffered |-> <<<<0, 15>>>>, canPlay |-> TRUE,
    canPlayThrough |-> TRUE, canRequestFullscreen |-> TRUE,
    controls |-> TRUE, currentPoster |-> "poster.png", currentSrc |-> "a.mp4",
    currentTime |-> 42, duration |-> 200, ended |-> TRUE, error |-> "error",
    fullscreen |-> TRUE, live |-> TRUE, loop |-> TRUE,
    mediaType |-> "video", muted |-> TRUE, paused |-> FALSE,
    played |-> <<<<0, 15>>>>, playing |-> TRUE, playsinline |-> TRUE,
    seekable |-> <<<<0, 15>>>>, seeking |-> TRUE, started |-> TRUE,
    viewType |-> "video", volume |-> 53, waiting |-> TRUE ]

CtxDirty(c) == Cardinality({p \in StoredProps : c[p] # InitialValue[p]})

UpdateContext(ctxProp) ==
  /\ Len(cq.entries) < MaxPendingUpdates
  /\ CtxDirty(ctx) + Len(cq.entries) < MaxDirty
  /\ SetContext(ctxProp, AltValue[ctxProp])

NextCtx ==
  \/ \E ctxProp \in StoredProps : UpdateContext(ctxProp)
  \/ HandleMediaSrcChange
  \/ ConnectedCallback
  \/ DisconnectedCallback

SpecCtx == InitMedia /\ [][NextCtx]_vars

\* ------------------------------------------------------------------------
\* Stores (writable, readable, derived), the media context built from them,
\* and hostedStoreSubscription.  impl = "stores" runs the stores of the
\* store tests (a, b, the readable r, and the derived a * b); impl =
\* "context" runs the context fields viewType, buffered and duration with
\* the fields derived from them and one consumer element.
\* ------------------------------------------------------------------------

MaxHostConnects == 2

ViewTypes == {"unknown", "audio", "video"}

isAudioView(viewType) == viewType = "audio"

isVideoView_NotAudio(viewType) == viewType # "audio"

isVideoView(viewType) == viewType = "video"

\* x > y as the engine evaluates it: false when either side is NaN.
GreaterThan(x, y) == x # NaN /\ y # NaN /\ x > y

bufferedAmount_Duration(buffered, duration) ==
  IF Len(buffered) = 0 THEN 0 ELSE duration

bufferedAmount(buffered, duration) ==
  LET end == IF Len(buffered) = 0 THEN 0 ELSE buffered[Len(buffered)][2]
  IN IF GreaterThan(end, duration) THEN duration ELSE end

\* The values written to each store.
StoreValues(store) ==
  CASE store \in {"a", "b"}  -> {0, 2, 3}
    [] store = "r"           -> {0, 10}
    [] store = "viewType"    -> ViewTypes
    [] store = "buffered"    -> {NoRanges, <<<<0, 15>>>>, <<<<0, 0>>, <<15, 20>>>>}
    [] store = "duration"    -> {NaN, 15, 25}

\* The derived stores, and the stores each one is derived from.
DerivedStores ==
  IF impl = "stores" THEN <<"prod">>
  ELSE <<"isAudioView", "isVideoView", "bufferedAmount">>

Deps(d) ==
  CASE d = "prod"            -> {"a", "b"}
    [] d = "isAudioView"     -> {"viewType"}
    [] d = "isVideoView"     -> {"viewType"}
    [] d = "bufferedAmount"  -> {"buffered", "duration"}

Derive(d, val) ==
  CASE d = "prod"            -> val.a * val.b
    [] d = "isAudioView"     -> isAudioView(val.viewType)
    [] d = "isVideoView"     -> isVideoView(val.viewType)
    [] d = "bufferedAmount"  -> bufferedAmount(val.buffered, val.duration)

\* get(): the current value of a store.
StoreGet(val, store) ==
  IF store \in DOMAIN val THEN val[store] ELSE Derive(store, val)

NewStores ==
  [ val |-> [a |-> 0, b |-> 0, r |-> 0],
    rset |-> FALSE,        \* the set function of r has been handed out
    subs |-> <<>>,         \* the subscriptions, in subscription order
    disposed |-> {},       \* callbacks whose disposer has been called, with
                           \* the store each one had subscribed to
    calls |-> <<>>,        \* callbacks invoked by the last operation
    arg |-> <<>>,          \* store and value of the last operation, a set()
    host |-> [attached |-> FALSE, unsubscribe |-> 0, connects |-> 0] ]

NewContext ==
  [NewStores EXCEPT !.val = [viewType |-> InitialValue.viewType,
                             buffered |-> InitialValue.buffered,
                             duration |-> InitialValue.duration]]

Callbacks == {"cb1", "cb2"}

\* The subscriptions of one store, in subscription order.
Subscribers(subs, store) == SelectSeq(subs, LAMBDA e : e.store = store)

Notification(e, v) == [cb |-> e.cb, store |-> e.store, value |-> v]

RECURSIVE CallsFor_Reversed(_, _)
CallsFor_Reversed(subscribers, v) ==
  IF subscribers = <<>> THEN <<>>
  ELSE Append(CallsFor_Reversed(Tail(subscribers), v), Notification(Head(subscribers), v))

\* The callbacks of a store's subscribers run with the new value.
RECURSIVE CallsFor(_, _)
CallsFor(subscribers, v) ==
  IF subscribers = <<>> THEN <<>>
  ELSE <<Notification(Head(subscribers), v)>> \o CallsFor(Tail(subscribers), v)

\* The subscribers of the derived stores ds run after those of the store
\* that was set.
RECURSIVE DerivedCalls(_, _, _)
DerivedCalls(subs, ds, val) ==
  IF ds = <<>> THEN <<>>
  ELSE CallsFor(Subscribers(subs, Head(ds)), Derive(Head(ds), val))
         \o DerivedCalls(subs, Tail(ds), val)

\* A subscriber keeps the value its callback received last.
Received(subs, calls) ==
  [i \in DOMAIN subs |->
     IF \E j \in DOMAIN calls :
          calls[j].cb = subs[i].cb /\ calls[j].store = subs[i].store
     THEN [subs[i] EXCEPT !.got =
             calls[CHOOSE j \in DOMAIN calls :
                     calls[j].cb = subs[i].cb /\ calls[j].store = subs[i].store].value]
     ELSE subs[i]]

StoreSet_AlwaysNotifies(s, store, v) ==
  LET val == [s.val EXCEPT ![store] = v]
      calls == CallsFor(Subscribers(s.subs, store), v)
                 \o DerivedCalls(s.subs,
                      SelectSeq(DerivedStores, LAMBDA d : store \in Deps(d)), val)
  IN [s EXCEPT !.val = val, !.calls = calls, !.subs = Received(s.subs, calls)]

\* set(v): nothing happens when v is the current value; otherwise the
\* subscribers of the store, then those of every derived store whose value
\* changed, are called before set() returns.
StoreSet(s, store, v) ==
  IF s.val[store] = v THEN [s EXCEPT !.calls = <<>>]
  ELSE
    LET val == [s.val EXCEPT ![store] = v]
        changed == SelectSeq(DerivedStores, LAMBDA d :
                     store \in Deps(d) /\ Derive(d, val) # Derive(d, s.val))
        calls == CallsFor(Subscribers(s.subs, store), v)
                   \o DerivedCalls(s.subs, changed, val)
    IN [s EXCEPT !.val = val, !.calls = calls, !.subs = Received(s.subs, calls)]

StoreSubscribe_Silent(s, cb, store, gen) ==
  [s EXCEPT
     !.subs = Append(@, [cb |-> cb, store |-> store, gen |-> gen,
                         got |-> StoreGet(s.val, store)]),
     !.rset = @ \/ store = "r"]

\* subscribe(cb): cb is called with the current value, then registered.
StoreSubscribe(s, cb, store, gen) ==
  [s EXCEPT
     !.subs = Append(@, [cb |-> cb, store |-> store, gen |-> gen,
                         got |-> StoreGet(s.val, store)]),
     !.calls = Append(@, [cb |-> cb, store |-> store,
                          value |-> StoreGet(s.val, store)]),
     !.rset = @ \/ store = "r"]

StoreUnsubscribe_Keeps(s, cb, store, gen) == s

\* The disposer returned by subscribe(): the subscription is removed.
StoreUnsubscribe(s, cb, store, gen) ==
  [s EXCEPT !.subs = SelectSeq(@, LAMBDA e :
                       ~(e.cb = cb /\ e.store = store /\ e.gen = gen))]

\* The stores a consumer element subscribes to through
\* hostedStoreSubscription, one controller per store, in declaration order.
HostStores ==
  IF impl = "stores" THEN <<"a">>
  ELSE <<"viewType", "isAudioView", "isVideoView", "bufferedAmount">>

InitStores ==
  /\ impl = "stores"
  /\ st = NewStores
  /\ q = NewRequestQueue
  /\ cq = NewRequestQueue
  /\ waiters = [w \in WaiterIds |-> "idle"]
  /\ ctx = createMediaContextRecord
  /\ connected = FALSE
  /\ hasFlushedOnce = FALSE
  /\ flushResolved = FALSE
  /\ inflight = NoneInflight
  /\ lastOp = "new"
  /\ invoked = <<>>
  /\ engine = <<>>
  /\ log = <<>>

InitContext ==
  /\ impl = "context"
  /\ st = NewContext
  /\ q = NewRequestQueue
  /\ cq = NewRequestQueue
  /\ waiters = [w \in WaiterIds |-> "idle"]
  /\ ctx = createMediaContextRecord
  /\ connected = FALSE
  /\ hasFlushedOnce = FALSE
  /\ flushResolved = FALSE
  /\ inflight = NoneInflight
  /\ lastOp = "new"
  /\ invoked = <<>>
  /\ engine = <<>>
  /\ log = <<>>

\* const unsubscribe = store.subscribe(cb), by a callback that has not
\* subscribed before.
Subscribe(cb, store) ==
  /\ impl = "stores"
  /\ \A d \in st.disposed : d.cb # cb
  /\ \A i \in DOMAIN st.subs : st.subs[i].cb # cb
  /\ st' = StoreSubscribe([st EXCEPT !.calls = <<>>, !.arg = <<>>], cb, store, 0)
  /\ lastOp' = "subscribe"
  /\ UNCHANGED <<impl, q, cq, waiters, ctx, connected, hasFlushedOnce,
                 flushResolved, inflight, invoked, engine, log>>

\* unsubscribe(), by a callback that has subscribed.
Unsubscribe(cb) ==
  /\ impl = "stores"
  /\ \E i \in DOMAIN st.subs :
       /\ st.subs[i].cb = cb
       /\ st' = [StoreUnsubscribe([st EXCEPT !.calls = <<>>, !.arg = <<>>],
                                  cb, st.subs[i].store, 0)
                   EXCEPT !.disposed = @ \cup {[cb |-> cb, store |-> st.subs[i].store]}]
  /\ lastOp' = "unsubscribe"
  /\ UNCHANGED <<impl, q, cq, waiters, ctx, connected, hasFlushedOnce,
                 flushResolved, inflight, invoked, engine, log>>

\* store.set(v); the readable store is set through the function its start
\* callback received, which exists once the store has had a subscriber.
Set(store, v) ==
  /\ impl \in {"stores", "context"}
  /\ store \in DOMAIN st.val
  /\ store = "r" => st.rset
  /\ st' = [StoreSet(st, store, v) EXCEPT !.arg = <<store, v>>]
  /\ lastOp' = "set"
  /\ UNCHANGED <<impl, q, cq, waiters, ctx, connected, hasFlushedOnce,
                 flushResolved, inflight, invoked, engine, log>>

\* The controllers' hostConnected, in order: unsubscribe = store.subscribe(onChange).
RECURSIVE SubscribeAll(_, _, _)
SubscribeAll(s, stores, gen) ==
  IF stores = <<>> THEN s
  ELSE SubscribeAll(StoreSubscribe(s, "host", Head(stores), gen), Tail(stores), gen)

\* The controllers' hostDisconnected, in order: unsubscribe?.().
RECURSIVE UnsubscribeAll(_, _, _)
UnsubscribeAll(s, stores, gen) ==
  IF stores = <<>> \/ gen = 0 THEN s
  ELSE UnsubscribeAll(StoreUnsubscribe(s, "host", Head(stores), gen), Tail(stores), gen)

\* The consumer element is attached to the document.
HostConnected ==
  /\ impl \in {"stores", "context"}
  /\ ~st.host.attached
  /\ st.host.connects < MaxHostConnects
  /\ LET gen == st.host.connects + 1
     IN st' = [SubscribeAll([st EXCEPT !.calls = <<>>, !.arg = <<>>], HostStores, gen)
                 EXCEPT !.host = [attached |-> TRUE, unsubscribe |-> gen,
                                  connects |-> gen]]
  /\ lastOp' = "hostConnected"
  /\ UNCHANGED <<impl, q, cq, waiters, ctx, connected, hasFlushedOnce,
                 flushResolved, inflight, invoked, engine, log>>

HostDisconnected_KeepsSubscription ==
  /\ impl \in {"stores", "context"}
  /\ st.host.attached
  /\ st' = [st EXCEPT !.calls = <<>>, !.arg = <<>>, !.host.attached = FALSE]
  /\ lastOp' = "hostDisconnected"
  /\ UNCHANGED <<impl, q, cq, waiters, ctx, connected, hasFlushedOnce,
                 flushResolved, inflight, invoked, engine, log>>

\* The consumer element is removed from the document.
HostDisconnected ==
  /\ impl \in {"stores", "context"}
  /\ st.host.attached
  /\ st' = [UnsubscribeAll([st EXCEPT !.calls = <<>>, !.arg = <<>>],
                           HostStores, st.host.unsubscribe)
              EXCEPT !.host.attached = FALSE]
  /\ lastOp' = "hostDisconnected"
  /\ UNCHANGED <<impl, q, cq, waiters, ctx, connected, hasFlushedOnce,
                 flushResolved, inflight, invoked, engine, log>>

NextStores ==
  \/ \E cb \in Callbacks, store \in {"a", "b", "r", "prod"} : Subscribe(cb, store)
  \/ \E cb \in Callbacks : Unsubscribe(cb)
  \/ \E store \in DOMAIN st.val : \E v \in StoreValues(store) : Set(store, v)
  \/ HostConnected
  \/ HostDisconnected

SpecStores == (InitStores \/ InitContext) /\ [][NextStores]_vars

\* ------------------------------------------------------------------------
\* The provider's programming interface: property reads, fullscreen and
\* screen orientation requests, validation of the ended state
\* ------------------------------------------------------------------------

GatedProps == {"paused", "currentTime", "volume", "muted"}

getProperty_Ungated(c, prop) ==
  [value |-> c[prop], ops |-> <<EngineOp("get", 0, FALSE)>>]

\* get paused / currentTime / volume / muted: `this.canPlay ? this._getX() :
\* default`; the engine of the fake provider answers from the context.
getProperty(c, prop) ==
  IF c.canPlay
    THEN [value |-> c[prop], ops |-> <<EngineOp("get", 0, FALSE)>>]
    ELSE [value |-> CASE prop = "paused"      -> TRUE
                      [] prop = "currentTime" -> 0
                      [] prop = "volume"      -> 100
                      [] prop = "muted"       -> FALSE,
          ops |-> <<>>]

\* A consumer reads one of the readiness-gated properties.
Get(prop) ==
  /\ impl \in {"media", "core"}
  /\ engine' = getProperty(ctx, prop).ops
  /\ invoked' = <<>>
  /\ log' = CurLog
  /\ lastOp' = "get"
  /\ waiters' = Settled(waiters)
  /\ UNCHANGED <<impl, st, q, cq, ctx, connected, hasFlushedOnce, flushResolved, inflight>>

\* The view type is assigned by the concrete provider (a video or audio
\* element) when it learns what it plays.
CoreSetViewType(vt) ==
  /\ impl = "core"
  /\ connected
  /\ ctx' = [ctx EXCEPT !.viewType = vt]
  /\ engine' = <<>>
  /\ invoked' = <<>>
  /\ log' = CurLog
  /\ lastOp' = "setViewType"
  /\ waiters' = Settled(waiters)
  /\ UNCHANGED <<impl, st, q, cq, connected, hasFlushedOnce, flushResolved, inflight>>

ApiMethods ==
  {"requestFullscreen", "exitFullscreen", "lockOrientation", "unlockOrientation"}

\* TRUE when the call throws.
throwIfNoFullscreenSupport_VideoOnly(c, canRequestFullscreenNatively) ==
  ~isVideoView(c.viewType)

throwIfNoFullscreenSupport(c, canRequestFullscreenNatively) ==
  ~isVideoView(c.viewType) \/ ~canRequestFullscreenNatively

throwIfScreenOrientationUnavailable(canOrientScreen) == ~canOrientScreen

\* requestFullscreen(), exitFullscreen(), lockOrientation() and
\* unlockOrientation() of the core provider. `available` is what the
\* browser reports for the API the method needs.  All four are async: a
\* throw is a rejected promise, recorded as the step "rejected".  The flag
\* of the recorded engine operation is the availability the call saw.  The
\* context of the model has no screenOrientationLocked field; fullscreen is
\* updated by the fullscreenchange handler.
CoreApiCall(method, available) ==
  /\ impl = "core"
  /\ LET throws == IF method \in {"requestFullscreen", "exitFullscreen"}
                     THEN throwIfNoFullscreenSupport(ctx, available)
                     ELSE throwIfScreenOrientationUnavailable(available)
         returnsEarly == \/ method = "requestFullscreen" /\ ctx.fullscreen
                         \/ method = "exitFullscreen" /\ ~ctx.fullscreen IN
       /\ lastOp' = IF throws THEN "rejected" ELSE method
       /\ engine' = IF throws \/ returnsEarly THEN <<>>
                     ELSE <<EngineOp(method, 0, available)>>
  /\ invoked' = <<>>
  /\ log' = CurLog
  /\ waiters' = Settled(waiters)
  /\ UNCHANGED <<impl, st, q, cq, ctx, connected, hasFlushedOnce, flushResolved, inflight>>

\* A current time, in hundredths of a second, that rounds to within one
\* tenth of the duration.
PlaybackTimes == {185}

\* Math.round(x * 10) for a time x given in hundredths of a second.
Round10(n) == (n + 5) \div 10

\* Reads duration and currentTime through the provider's getters.
hasPlaybackRoughlyEnded(c) ==
  IF c.duration = NaN \/ c.duration = 0 THEN FALSE
  ELSE LET d == Round10(c.duration) - Round10(getProperty(c, "currentTime").value)
       IN (IF d < 0 THEN -d ELSE d) <= 1

\* The context after the validation and the events it dispatches; events
\* are those the provider dispatches when ended becomes true.
validatePlaybackEndedState(c, events) ==
  IF c.ended /\ ~hasPlaybackRoughlyEnded(c)
    THEN [ctx |-> [c EXCEPT !.ended = FALSE], events |-> <<>>]
  ELSE IF ~c.ended /\ hasPlaybackRoughlyEnded(c)
    THEN [ctx |-> [c EXCEPT !.waiting = FALSE, !.ended = TRUE], events |-> events]
  ELSE [ctx |-> c, events |-> <<>>]

\* _validatePlaybackEndedState of the media provider and
\* validatePlaybackEndedState of the core provider; the events dispatched
\* are recorded in place of the engine operations of the step.
ValidatePlaybackEndedState ==
  /\ impl \in {"media", "core"}
  /\ LET r == validatePlaybackEndedState(ctx,
                 IF impl = "media" THEN <<"vds-suspend", "vds-error">>
                 ELSE <<"vds-ended">>) IN
       /\ ctx' = r.ctx
       /\ engine' = [i \in DOMAIN r.events |-> EngineOp(r.events[i], 0, FALSE)]
  /\ invoked' = <<>>
  /\ log' = CurLog
  /\ lastOp' = "validatePlaybackEndedState"
  /\ waiters' = Settled(waiters)
  /\ UNCHANGED <<impl, st, q, cq, connected, hasFlushedOnce, flushResolved, inflight>>

NextApi ==
  \/ \E v \in CoreVolumes : SetVolume(v)
  \/ \E b \in CoreMuted : SetMuted(b)
  \/ \E t \in RequestedTimes : SetCurrentTime(t)
  \/ HandleMediaReady
  \/ HandleMediaSrcChange
  \/ \E d \in Durations : SetContext("duration", d)
  \/ \E t \in PlaybackTimes : SetContext("currentTime", t)
  \/ ConnectedCallback
  \/ DisconnectedCallback
  \/ \E v \in CoreVolumes : CoreSetVolume(v)
  \/ \E b \in CoreMuted : CoreSetMuted(b)
  \/ CoreHandleCanPlay
  \/ CoreHandleSrcChange
  \/ CoreConnectedCallback
  \/ CoreDisconnectedCallback
  \/ ValidatePlaybackEndedState
  \/ \E prop \in GatedProps : Get(prop)
  \/ \E vt \in ViewTypes : CoreSetViewType(vt)
  \/ \E method \in ApiMethods, available \in BOOLEAN : CoreApiCall(method, available)

SpecApi == (InitMedia \/ InitCore) /\ [][NextApi]_vars

\* ------------------------------------------------------------------------
\* The controller's bridge to the media provider
\* ------------------------------------------------------------------------

\* The provider elements that may connect below one controller.
Providers == {"A", "B", "C"}

\* mediaProvider is the controller's reference ("none" is undefined); bin is
\* the provider whose disposals mediaProviderDisconnectDisposal holds;
\* ctxOf is the context record each provider writes into; listeners are the
\* providers whose events are forwarded; attached and onDisconnect are the
\* providers in the document and those that hold the controller's
\* disconnect callback.
NewController ==
  [ mediaProvider |-> "none", bin |-> "none", serveImmediately |-> FALSE,
    ctxOf |-> [p \in Providers |-> "own"], listeners |-> {},
    attached |-> [p \in Providers |-> FALSE],
    onDisconnect |-> [p \in Providers |-> FALSE], arg |-> "none" ]

\* Emptying the bin runs its disposals: the one of the context record acts
\* on the provider referenced at that time, the listeners are those of the
\* provider they were added to.
handleMediaProviderDisconnect(s) ==
  LET emptied == IF s.bin = "none" THEN s
                 ELSE [s EXCEPT !.ctxOf[s.mediaProvider] = "own",
                                !.listeners = @ \ {s.bin},
                                !.serveImmediately = FALSE,
                                !.bin = "none"]
  IN [emptied EXCEPT !.mediaProvider = "none"]

handleMediaProviderConnect_KeepsOld(s, element) ==
  [s EXCEPT !.mediaProvider = element,
            !.ctxOf[element] = "controller",
            !.listeners = @ \cup {element},
            !.serveImmediately = TRUE,
            !.bin = element,
            !.onDisconnect[element] = TRUE]

handleMediaProviderConnect(s, element) ==
  IF s.mediaProvider = element THEN s
  ELSE [handleMediaProviderDisconnect(s)
          EXCEPT !.mediaProvider = element,
                 !.ctxOf[element] = "controller",
                 !.listeners = @ \cup {element},
                 !.serveImmediately = TRUE,
                 !.bin = element,
                 !.onDisconnect[element] = TRUE]

InitController ==
  /\ impl = "controller"
  /\ st = NewController
  /\ q = NewRequestQueue
  /\ cq = NewRequestQueue
  /\ waiters = [w \in WaiterIds |-> "idle"]
  /\ ctx = createMediaContextRecord
  /\ connected = FALSE
  /\ hasFlushedOnce = FALSE
  /\ flushResolved = FALSE
  /\ inflight = NoneInflight
  /\ lastOp = "new"
  /\ invoked = <<>>
  /\ engine = <<>>
  /\ log = <<>>

\* A provider is attached below the controller and announces itself.
ProviderConnect(element) ==
  /\ impl = "controller"
  /\ ~st.attached[element]
  /\ st' = [handleMediaProviderConnect(st, element)
              EXCEPT !.attached[element] = TRUE, !.arg = element]
  /\ lastOp' = "providerConnect"
  /\ UNCHANGED <<impl, q, cq, waiters, ctx, connected, hasFlushedOnce,
                 flushResolved, inflight, invoked, engine, log>>

\* A provider is detached: it runs the callbacks handed to its onDisconnect.
ProviderDisconnect(element) ==
  /\ impl = "controller"
  /\ st.attached[element]
  /\ st' = [(IF st.onDisconnect[element]
               THEN handleMediaProviderDisconnect(st) ELSE st)
              EXCEPT !.attached[element] = FALSE,
                     !.onDisconnect[element] = FALSE,
                     !.arg = element]
  /\ lastOp' = "providerDisconnect"
  /\ UNCHANGED <<impl, q, cq, waiters, ctx, connected, hasFlushedOnce,
                 flushResolved, inflight, invoked, engine, log>>

\* ------------------------------------------------------------------------
\* loadScript
\* ------------------------------------------------------------------------

\* calls of loadScript in one run
MaxLoads == 3

Srcs == {"hls.js", "dash.js"}

\* pendingRequests is the module's record of pending requests by src;
\* scripts are the script elements created, each scheduled (its append timer
\* has not fired), appended, loaded or failed; callers are the promises
\* returned, each with the element that settles it (0 for none).
NewLoader == [pendingRequests |-> {}, scripts |-> <<>>, callers |-> <<>>]

InitLoader ==
  /\ impl = "loader"
  /\ st = NewLoader
  /\ q = NewRequestQueue
  /\ cq = NewRequestQueue
  /\ waiters = [w \in WaiterIds |-> "idle"]
  /\ ctx = createMediaContextRecord
  /\ connected = FALSE
  /\ hasFlushedOnce = FALSE
  /\ flushResolved = FALSE
  /\ inflight = NoneInflight
  /\ lastOp = "new"
  /\ invoked = <<>>
  /\ engine = <<>>
  /\ log = <<>>

\* loadScript(src).  The promise of a pending request is returned only if
\* pendingRequests holds one, and no statement stores one there.
LoadScript(src) ==
  /\ impl = "loader"
  /\ Len(st.callers) < MaxLoads
  /\ LET exists == \E i \in DOMAIN st.scripts :
                      /\ st.scripts[i].src = src
                      /\ st.scripts[i].state # "scheduled"
         shared == CHOOSE i \in DOMAIN st.scripts : st.scripts[i].src = src
         element == Len(st.scripts) + 1 IN
       st' = IF src \in st.pendingRequests
               THEN [st EXCEPT !.callers = Append(@,
                       [src |-> src, script |-> shared, state |-> "pending"])]
             ELSE IF exists
               THEN [st EXCEPT !.callers = Append(@,
                       [src |-> src, script |-> 0, state |-> "resolved"])]
             ELSE [st EXCEPT
                     !.scripts = Append(@, [src |-> src, state |-> "scheduled"]),
                     !.callers = Append(@,
                       [src |-> src, script |-> element, state |-> "pending"])]
  /\ lastOp' = "loadScript"
  /\ UNCHANGED <<impl, q, cq, waiters, ctx, connected, hasFlushedOnce,
                 flushResolved, inflight, invoked, engine, log>>

\* The timer of a script element fires: document.head.append(script).
AppendScript(element) ==
  /\ impl = "loader"
  /\ element \in DOMAIN st.scripts
  /\ st.scripts[element].state = "scheduled"
  /\ st' = [st EXCEPT !.scripts[element].state = "appended"]
  /\ lastOp' = "append"
  /\ UNCHANGED <<impl, q, cq, waiters, ctx, connected, hasFlushedOnce,
                 flushResolved, inflight, invoked, engine, log>>

\* script.onload / script.onerror of an appended element.
ScriptSettle(element, loaded) ==
  /\ impl = "loader"
  /\ element \in DOMAIN st.scripts
  /\ st.scripts[element].state = "appended"
  /\ st' = [st EXCEPT
              !.scripts[element].state = IF loaded THEN "loaded" ELSE "failed",
              !.pendingRequests = @ \ {st.scripts[element].src},
              !.callers = [c \in DOMAIN @ |->
                 IF @[c].script = element
                   THEN [@[c] EXCEPT !.state = IF loaded THEN "resolved"
                                               ELSE "rejected"]
                   ELSE @[c]]]
  /\ lastOp' = IF loaded THEN "onload" ELSE "onerror"
  /\ UNCHANGED <<impl, q, cq, waiters, ctx, connected, hasFlushedOnce,
                 flushResolved, inflight, invoked, engine, log>>

\* ------------------------------------------------------------------------
\* The scrubber's playback toggle while dragging
\* ------------------------------------------------------------------------

\* The scrubber's fields, the requests the last handler sent through the
\* remote control, and whether the pause was requested when the current
\* drag started.
InitScrubber ==
  /\ impl = "scrubber"
  /\ \E enabled \in BOOLEAN :
       st = [ pauseWhileDragging |-> enabled, isDraggingThumb |-> FALSE,
              wasPlayingBeforeDragStart |-> FALSE, mediaPaused |-> TRUE,
              requests |-> <<>>, pausedAtDragStart |-> FALSE ]
  /\ q = NewRequestQueue
  /\ cq = NewRequestQueue
  /\ waiters = [w \in WaiterIds |-> "idle"]
  /\ ctx = createMediaContextRecord
  /\ connected = FALSE
  /\ hasFlushedOnce = FALSE
  /\ flushResolved = FALSE
  /\ inflight = NoneInflight
  /\ lastOp = "new"
  /\ invoked = <<>>
  /\ engine = <<>>
  /\ log = <<>>

togglePlaybackWhileDragging(s) ==
  IF ~s.pauseWhileDragging THEN s
  ELSE IF s.isDraggingThumb /\ ~s.mediaPaused
    THEN [s EXCEPT !.wasPlayingBeforeDragStart = TRUE,
                   !.requests = Append(@, "pause")]
  ELSE IF s.wasPlayingBeforeDragStart /\ ~s.isDraggingThumb /\ s.mediaPaused
    THEN [s EXCEPT !.wasPlayingBeforeDragStart = FALSE,
                   !.requests = Append(@, "play")]
  ELSE s

HandleSliderDragStart ==
  /\ impl = "scrubber"
  /\ ~st.isDraggingThumb
  /\ LET r == togglePlaybackWhileDragging(
                [st EXCEPT !.isDraggingThumb = TRUE, !.requests = <<>>])
     IN st' = [r EXCEPT !.pausedAtDragStart = (r.requests = <<"pause">>)]
  /\ lastOp' = "handleSliderDragStart"
  /\ UNCHANGED <<impl, q, cq, waiters, ctx, connected, hasFlushedOnce,
                 flushResolved, inflight, invoked, engine, log>>

HandleSliderDragEnd ==
  /\ impl = "scrubber"
  /\ st.isDraggingThumb
  /\ st' = togglePlaybackWhileDragging(
             [st EXCEPT !.isDraggingThumb = FALSE, !.requests = <<>>])
  /\ lastOp' = "handleSliderDragEnd"
  /\ UNCHANGED <<impl, q, cq, waiters, ctx, connected, hasFlushedOnce,
                 flushResolved, inflight, invoked, engine, log>>

\* The media context reports that playback was paused or resumed, by the
\* scrubber's request or by anyone else.
HandleMediaPausedChange(paused) ==
  /\ impl = "scrubber"
  /\ st.mediaPaused # paused
  /\ st' = [st EXCEPT !.mediaPaused = paused, !.requests = <<>>]
  /\ lastOp' = "mediaPaused"
  /\ UNCHANGED <<impl, q, cq, waiters, ctx, connected, hasFlushedOnce,
                 flushResolved, inflight, invoked, engine, log>>

NextParts ==
  \/ HandleSliderDragStart
  \/ HandleSliderDragEnd
  \/ \E paused \in BOOLEAN : HandleMediaPausedChange(paused)
  \/ \E element \in Providers : ProviderConnect(element)
  \/ \E element \in Providers : ProviderDisconnect(element)
  \/ \E src \in Srcs : LoadScript(src)
  \/ \E element \in 1..MaxLoads : AppendScript(element)
  \/ \E element \in 1..MaxLoads, loaded \in BOOLEAN : ScriptSettle(element, loaded)

SpecParts ==
  (InitController \/ InitLoader \/ InitScrubber) /\ [][NextParts]_vars

\* ------------------------------------------------------------------------
\* Properties
\* ------------------------------------------------------------------------

\* The map that a sequence of deferred queue() calls leaves behind.
Coalesce(l) ==
  LET RECURSIVE Into(_, _)
      Into(acc, rest) ==
        IF rest = <<>> THEN acc
        ELSE Into(MapSet(acc, Head(rest).key, Head(rest).fn), Tail(rest))
  IN Into(<<>>, l)

\* The i-th deferred call is the last one made under its key.
IsLastForKey(l, i) == \A j \in DOMAIN l : j > i => l[j].key # l[i].key

DistinctKeys(l) == \A i, j \in DOMAIN l : i # j => l[i].key # l[j].key

\* Handlers through which a consumer states a playback intent, and the key
\* each one queues under.
SetterOps ==
  {"set volume", "set paused", "set currentTime", "set muted",
   "handleUserFullscreenChange"}

RequestKey ==
  [ op \in SetterOps |->
      CASE op = "set volume" -> "volume"
        [] op = "set paused" -> "paused"
        [] op = "set currentTime" -> "time"
        [] op = "set muted" -> "muted"
        [] op = "handleUserFullscreenChange" -> "fullscreen" ]

ReadyOps == {"handleMediaReady", "handleMediaReady (again)"}

SrcChangeOps == {"handleMediaSrcChange (first)", "handleMediaSrcChange"}

\* C1 (key coalescing): when a flush has just run, for every key that was
\* queued since the queue was last emptied, the callback queued last under
\* that key has been invoked exactly once and no other callback queued under
\* that key has been invoked.
KeyCoalescing ==
  lastOp \in FlushOps =>
    \A i \in DOMAIN log :
      IsLastForKey(log, i) => MapGet(invoked, log[i].key) = <<log[i]>>

KeyCoalescingWitness ==
  /\ lastOp \in FlushOps
  /\ Len(log) = 2
  /\ log[1].key = log[2].key
  /\ log[1].fn # log[2].fn
  /\ invoked = <<log[2]>>

\* C2 (flush ordering): when a flush has just run and the calls deferred
\* since the queue was last emptied all had distinct keys, the callbacks
\* invoked are exactly those calls, once each, in the order they were made.
FlushOrdering ==
  (lastOp \in FlushOps /\ DistinctKeys(log)) => invoked = log

FlushOrderingWitness ==
  /\ lastOp = "start"
  /\ Len(log) = 3
  /\ log[1].key = "c" /\ log[2].key = "a" /\ log[3].key = "b"
  /\ invoked = log

ReadyFlushesOnce ==
  [][ (impl = "media" /\ lastOp' \in ReadyOps) =>
        IF q.serveImmediately
          THEN invoked' = <<>> /\ engine' = <<>> /\ q' = q /\ ctx' = ctx
          ELSE /\ invoked' = Coalesce(CurLog)
               /\ invoked' = q.entries
               /\ Len(engine') = Len(invoked')
               /\ RQ_size(q') = 0
               /\ q'.serveImmediately
               /\ ctx'.canPlay ]_vars

ReadyFlushesOnceWitness ==
  /\ impl = "media"
  /\ lastOp = "handleMediaReady (again)"
  /\ ctx.volume = 53
  /\ ~ctx.paused
  /\ invoked = <<>>
  /\ RQ_size(q) = 0

\* C5 (pass-through mode): while a live queue is in pass-through mode its
\* size is 0, and every queue() call made on it (directly or by a setter of
\* the provider) invokes exactly the callback of that call within the call
\* and leaves the size at 0.
PassThrough ==
  [][ (impl \in {"queue", "media"} /\ q.serveImmediately /\ ~q.destroyed) =>
        /\ RQ_size(q) = 0
        /\ \A k \in QKeys, f \in Fns :
             QQueue(k, f) => invoked' = <<Entry(k, f)>> /\ RQ_size(q') = 0
        /\ lastOp' \in SetterOps =>
             /\ Len(invoked') = 1
             /\ invoked'[1].key = RequestKey[lastOp']
             /\ Len(engine') = 1
             /\ RQ_size(q') = 0 ]_vars

PassThroughWitness ==
  /\ impl = "media"
  /\ lastOp = "set muted"
  /\ q.serveImmediately /\ ~q.destroyed
  /\ invoked = <<Entry("muted", mutedRequest(TRUE))>>
  /\ engine = <<EngineOp("_setMuted", 0, TRUE)>>
  /\ RQ_size(q) = 0

\* Handlers that complete a flush of the request queue or destroy it.
ReleaseOps ==
  {"start", "destroy", "handleMediaReady", "handleMediaReady (again)",
   "disconnectedCallback", "handleCanPlay", "flushRequestQueue (resumed)"}

NonePending(ws) == \A w \in WaiterIds : ws[w] # "pending"

\* C6 (flush-wait release): a caller that calls waitForFlush() on a live
\* queue in queuing mode is left waiting; a waiting caller stops waiting only
\* by being released, and only in a step that flushes or destroys the queue;
\* and once a flush has completed or the queue has been destroyed no caller
\* is left waiting.
FlushWaitRelease ==
  [][ /\ \A w \in WaiterIds :
           (waiters[w] = "pending" /\ waiters'[w] # "pending") =>
             (waiters'[w] = "released" /\ lastOp' \in ReleaseOps)
      /\ (lastOp' \in ReleaseOps \ {"handleCanPlay"}) => NonePending(waiters')
      /\ (lastOp' = "handleCanPlay" /\ inflight' = inflight) => NonePending(waiters')
      /\ (lastOp' = "waitForFlush" /\ ~q.serveImmediately /\ ~q.destroyed) =>
           \E w \in WaiterIds : waiters[w] = "idle" /\ waiters'[w] = "pending"
    ]_vars

FlushWaitReleaseWitness ==
  /\ impl = "core"
  /\ lastOp = "disconnectedCallback"
  /\ waiters[1] = "released"

SrcChangeDiscards ==
  [][ (impl = "media" /\ lastOp' \in SrcChangeOps /\ ctx.canPlay) =>
        /\ invoked' = <<>>
        /\ RQ_size(q') = 0
        /\ ~q'.serveImmediately ]_vars

\* C9 (initial source change): the first source change since the provider
\* was connected leaves the media request queue, the pending intents and the
\* context untouched; every later one leaves the queue empty and in queuing
\* mode and soft-resets the context; and a readiness signal invokes exactly
\* the intents still pending in the queue.
FirstSrcChangeSkipsReset ==
  [][ /\ (impl = "media" /\ lastOp' = "handleMediaSrcChange (first)") =>
           (~hasFlushedOnce /\ q' = q /\ ctx' = ctx /\ log' = CurLog)
      /\ (impl = "media" /\ lastOp' = "handleMediaSrcChange") =>
           /\ hasFlushedOnce
           /\ RQ_size(q') = 0 /\ ~q'.serveImmediately
           /\ ctx' = softResetMediaContext(ctx)
      /\ (impl = "media" /\ lastOp' \in ReadyOps) => invoked' = q.entries
    ]_vars

FirstSrcChangeSkipsResetWitness ==
  /\ impl = "media"
  /\ lastOp = "handleMediaSrcChange (first)"
  /\ ~ctx.canPlay
  /\ RQ_size(q) = 2
  /\ log = q.entries

\* Properties the specification lists as reset by a soft reset.
PerResourceProps ==
  { "buffered", "duration", "currentTime", "ended", "paused", "playing",
    "seeking", "started", "waiting", "mediaType", "canPlay", "canPlayThrough" }

\* The same, with the three further properties tied to the current resource.
SoftResetProps == PerResourceProps \cup {"currentSrc", "played", "seekable"}

\* A step that soft-resets the context resets exactly `props`.
SoftResets(props) ==
  (lastOp' = "handleMediaSrcChange") =>
    \A p \in StoredProps :
      ctx'[p] = IF p \in props THEN InitialValue[p] ELSE ctx[p]

\* C10 (soft reset boundary, as stated): a soft reset sets exactly buffered,
\* duration, currentTime, ended, paused, playing, seeking, started, waiting,
\* mediaType, canPlay and canPlayThrough to their initial values and leaves
\* every other property as it was.
SoftResetBoundaryAsStated == [][SoftResets(PerResourceProps)]_vars

\* C10 (soft reset boundary, amended): a soft reset sets exactly the listed
\* properties and currentSrc, played and seekable to their initial values
\* and leaves every other property (volume, muted, fullscreen, controls,
\* loop, ...) as it was.
SoftResetBoundary == [][SoftResets(SoftResetProps)]_vars

SoftResetBoundaryWitness ==
  /\ lastOp = "handleMediaSrcChange"
  /\ ctx.volume = AltValue.volume
  /\ ctx.loop
  /\ ctx.duration = NaN
  /\ ctx.currentSrc = ""

\* C11 (hard reset on disconnect): a disconnect of a provider leaves every
\* stored (non-derived) property of its context at its initial value.
HardResetOnDisconnect ==
  [][ (lastOp' = "disconnectedCallback") =>
        \A p \in StoredProps : ctx'[p] = InitialValue[p] ]_vars

\* C12 (disconnect releases waiters): right after a provider disconnected,
\* its request queue is empty, nothing has been invoked, no caller is left
\* waiting for the flush, and the queue of the media provider is destroyed.
DisconnectReleasesWaiters ==
  (impl \in {"media", "core"} /\ lastOp = "disconnectedCallback") =>
    /\ NonePending(waiters)
    /\ RQ_size(q) = 0
    /\ invoked = <<>>
    /\ impl = "media" => q.destroyed /\ cq.destroyed

DisconnectReleasesWaitersWitness ==
  /\ impl = "media"
  /\ lastOp = "disconnectedCallback"
  /\ q.destroyed
  /\ waiters[1] = "released"
  /\ ~ctx.canPlay

\* The stand-alone RequestQueue alone, and together with the media provider
\* that owns two RequestQueues (callers wait on the stand-alone queue only).
SpecQueue == InitQueue /\ [][NextQueue]_vars

NextQM ==
  \/ impl = "queue" /\ NextQueue
  \/ NextMedia

SpecQM == (InitQueue \/ InitMedia) /\ [][NextQM]_vars

\* Steps that call destroy() on the request queue.
DestroyOps == {"destroy", "disconnectedCallback"}

\* C13 (destroy discards): a step that destroys the queue invokes none of
\* the pending actions and leaves the queue empty, and no later step on the
\* destroyed queue invokes an action or stores one.
DestroyDiscards ==
  [][ /\ lastOp' \in DestroyOps =>
           q'.destroyed /\ RQ_size(q') = 0 /\ invoked' = <<>> /\ engine' = <<>>
      /\ q.destroyed => RQ_size(q') = 0 /\ invoked' = <<>> /\ engine' = <<>>
    ]_vars

DestroyDiscardsWitness ==
  /\ impl = "media"
  /\ lastOp = "disconnectedCallback"
  /\ q.destroyed
  /\ RQ_size(q) = 0
  /\ invoked = <<>>
  /\ ctx.volume = InitialValue.volume
  /\ ~ctx.canPlay

\* C14 (stop returns to queuing): stop() on a live queue switches to the
\* queuing mode, invokes nothing and leaves the entries as they are; a
\* queue(key, fn) that follows a stop() does not invoke fn and retains it
\* under its key.
StopRetains ==
  [][ (impl = "queue" /\ ~q.destroyed) =>
        /\ lastOp' = "stop" =>
             /\ ~q'.serveImmediately
             /\ q'.entries = q.entries
             /\ invoked' = <<>>
        /\ (lastOp = "stop" /\ lastOp' = "queue") =>
             /\ invoked' = <<>>
             /\ ~q'.serveImmediately
             /\ \E k \in QKeys, f \in Fns :
                  /\ q'.entries = MapSet(q.entries, k, f)
                  /\ MapGet(q'.entries, k) = <<Entry(k, f)>>
    ]_vars

\* stop() has run on a live queue: the queue is in queuing mode, nothing was
\* invoked, and a caller that waits for the flush is still waiting.
StopRetainsWitness ==
  /\ impl = "queue"
  /\ lastOp = "stop"
  /\ ~q.destroyed
  /\ ~q.serveImmediately
  /\ waiters[1] = "pending"
  /\ RQ_size(q) = 2
  /\ invoked = <<>>

\* C15 (reset discards): reset() on a live queue discards every pending
\* action without invoking any and leaves the mode flag as it was; the
\* source change of the media provider, which clears the flag itself before
\* it calls reset(), ends with an empty queue in queuing mode and nothing
\* invoked.
ResetDiscards ==
  [][ ~q.destroyed =>
        /\ (impl = "queue" /\ lastOp' = "reset") =>
             /\ RQ_size(q') = 0
             /\ invoked' = <<>>
             /\ q'.serveImmediately = q.serveImmediately
             /\ ~q'.destroyed
        /\ (impl = "media" /\ lastOp' = "handleMediaSrcChange") =>
             /\ RQ_size(q') = 0
             /\ invoked' = <<>>
             /\ engine' = <<>>
             /\ ~q'.serveImmediately
             /\ ~q'.destroyed
    ]_vars

ResetDiscardsWitness ==
  /\ impl = "queue"
  /\ lastOp = "reset"
  /\ ~q.destroyed
  /\ q.serveImmediately
  /\ RQ_size(q) = 0
  /\ invoked = <<>>

\* C16 (serve one key): serve(key) on a live queue invokes the pending
\* action stored under key, once, and removes exactly that entry; the other
\* entries keep their order, and with no entry under key nothing is invoked
\* and the queue is unchanged.  The mode flag is never changed by serve().
ServeOneKey ==
  [][ \A k \in QKeys :
        (QServe(k) /\ ~q.destroyed) =>
          /\ q'.serveImmediately = q.serveImmediately
          /\ ~q'.destroyed
          /\ q'.entries = SelectSeq(q.entries, LAMBDA e : e.key # k)
          /\ IF MapHas(q.entries, k)
               THEN /\ Len(invoked') = 1
                    /\ invoked'[1].key = k
                    /\ \E i \in 1..Len(q.entries) : q.entries[i] = invoked'[1]
                    /\ RQ_size(q') = RQ_size(q) - 1
               ELSE /\ invoked' = <<>>
                    /\ q' = q
    ]_vars

\* One of two pending actions was served; the other is still pending.
ServeOneKeyWitness ==
  /\ impl = "queue"
  /\ lastOp = "serve"
  /\ ~q.destroyed
  /\ ~q.serveImmediately
  /\ Len(invoked) = 1
  /\ RQ_size(q) = 1
  /\ q.entries[1].key # invoked[1].key

\* C17 (a failing request does not abort the flush): when a queued request
\* throws during the flush at readiness, every request of the batch is still
\* invoked exactly once in order, the failure is recorded, the provider is
\* ready (requests pass through), and the map is empty once the flush has
\* completed: at once when no request is asynchronous, else when
\* flushRequestQueue resumes.
FlushSurvivesFailure ==
  [][ impl = "core" =>
        /\ lastOp' = "handleCanPlay (throws)" =>
             /\ invoked' = q.entries
             /\ DistinctKeys(invoked')
             /\ ctx'.canPlay
             /\ ctx'.error = "error"
             /\ (\A i \in DOMAIN q.entries : ~IsAsync(q.entries[i].fn)) =>
                  q'.entries = <<>>
        /\ lastOp' = "flushRequestQueue (resumed)" =>
             /\ invoked' = <<>>
             /\ q'.entries = <<>>
             /\ ctx'.canPlay = ctx.canPlay
    ]_vars

\* The first of two flushed requests threw; both were invoked.
FlushSurvivesFailureWitness ==
  /\ impl = "core"
  /\ lastOp = "handleCanPlay (throws)"
  /\ Len(invoked) = 2
  /\ invoked[1].key \in ThrowingKeys
  /\ invoked[2].key = "paused"
  /\ ctx.error = "error"
  /\ ctx.canPlay
  /\ q.entries = <<>>

\* C18 (deferred failures are recorded): every failure of a deferred
\* request, a throwing request as well as a rejected play(), leaves an error
\* in the context.
DeferredFailureRecorded ==
  [][ lastOp' \in {"handleCanPlay (throws)", "play (rejected)"} =>
        ctx'.error # InitialValue.error ]_vars

\* C19 (destroyed is terminal): once the queue is destroyed no step invokes
\* an action or stores one: the queue stays destroyed with size 0, every
\* method of the stand-alone queue leaves it exactly as it is, a
\* waitForFlush() on it is resolved at once, and an update queued on the
\* destroyed context queue of the media provider never reaches the context.
DestroyedIsTerminal ==
  [][ /\ q.destroyed =>
           /\ invoked' = <<>>
           /\ engine' = <<>>
           /\ q'.destroyed
           /\ RQ_size(q') = 0
           /\ impl = "queue" => q' = q
           /\ lastOp' = "waitForFlush" =>
                \A w \in WaiterIds :
                  (waiters[w] = "idle" /\ waiters'[w] # "idle") =>
                    waiters'[w] = "released"
      /\ (impl = "media" /\ cq.destroyed) =>
           /\ cq'.destroyed
           /\ RQ_size(cq') = 0
           /\ lastOp' = "set context" => ctx' = ctx
    ]_vars

\* The media provider was disconnected, connected again and told that the
\* media is ready; the volume request made then was not invoked.
DestroyedIsTerminalWitness ==
  /\ impl = "media"
  /\ connected
  /\ q.destroyed
  /\ q.serveImmediately
  /\ ctx.canPlay
  /\ lastOp = "set volume"
  /\ invoked = <<>>
  /\ RQ_size(q) = 0

\* C20 (destroy is idempotent): a step that destroys an already destroyed
\* queue does not change that queue, releases no caller and invokes nothing.
DestroyIdempotent ==
  [][ (q.destroyed /\ lastOp' \in DestroyOps) =>
        /\ q' = q
        /\ waiters' = Settled(waiters)
        /\ invoked' = <<>>
        /\ engine' = <<>>
        /\ (impl = "media" /\ cq.destroyed) => cq' = cq
    ]_vars

\* The media provider was disconnected a second time: the flag written by
\* _handleMediaReady after the first destroy() is still set.
DestroyIdempotentWitness ==
  /\ impl = "media"
  /\ lastOp = "disconnectedCallback"
  /\ q.destroyed
  /\ q.serveImmediately
  /\ cq.destroyed
  /\ cq.serveImmediately

\* C21 (waitForFlush while serving): a caller that starts waiting for the
\* flush while the queue passes requests through (the stand-alone queue and
\* the media provider's queue serve immediately; the core provider can play)
\* is released by that very step: it is never left pending.  The callers
\* released earlier have resumed, so the released caller is the one that
\* has just called.
WaitOps == {"waitForFlush", "waitForRequestQueueToFlush"}

PassThroughMode ==
  IF impl = "core" THEN ctx.canPlay ELSE q.serveImmediately

WaitWhileServingReturns ==
  (lastOp \in WaitOps /\ PassThroughMode) =>
    \E w \in WaiterIds : waiters[w] = "released"

WaitWhileServingReturnsWitness ==
  /\ impl = "core"
  /\ lastOp = "waitForRequestQueueToFlush"
  /\ ctx.canPlay
  /\ ~flushResolved
  /\ waiters[1] = "released"

KeysOf(seq) == {seq[i].key : i \in DOMAIN seq}

SizeCountsDistinctKeys ==
  /\ DistinctKeys(q.entries)
  /\ RQ_size(q) = Cardinality(KeysOf(q.entries))
  /\ impl \in {"queue", "media"} =>
        /\ RQ_size(q) = Cardinality(KeysOf(CurLog))
        /\ RQ_size(q) <= Len(CurLog)

SizeCountsDistinctKeysWitness ==
  /\ impl = "queue"
  /\ RQ_size(q) = 2
  /\ Len(CurLog) = 3

\* C24 (subscribe replays): subscribe(cb) calls cb exactly once, with the
\* current value of the store, before it returns, and registers it last;
\* afterwards a set() calls a subscriber exactly once when the value of its
\* store has changed and not at all when it has not.
AllStores == DOMAIN st.val \cup {DerivedStores[i] : i \in DOMAIN DerivedStores}

CallCount(calls, e) ==
  Cardinality({j \in DOMAIN calls :
                 /\ calls[j].cb = e.cb
                 /\ calls[j].store = e.store})

SubscribeReplays ==
  [][ /\ lastOp' = "subscribe" =>
           /\ Len(st'.subs) = Len(st.subs) + 1
           /\ LET e == st'.subs[Len(st'.subs)]
              IN st'.calls = <<[cb |-> e.cb, store |-> e.store,
                                value |-> StoreGet(st.val, e.store)]>>
      /\ lastOp' = "set" =>
           \A i \in DOMAIN st'.subs :
             LET e == st'.subs[i]
             IN CallCount(st'.calls, e) =
                  IF StoreGet(st'.val, e.store) # StoreGet(st.val, e.store)
                  THEN 1 ELSE 0
    ]_vars

SubscribeReplaysWitness ==
  /\ impl = "stores"
  /\ lastOp = "subscribe"
  /\ st.val = NewStores.val
  /\ st.calls = <<[cb |-> "cb1", store |-> "a", value |-> 0]>>

\* C25 (no-op write): a set() with the value the store already has calls
\* no subscriber, neither of the store nor of a store derived from it; of
\* two consecutive set() calls with the same store and value the second
\* calls nobody.
NoOpWrite ==
  [][ lastOp' = "set" =>
        /\ (st'.val = st.val) => (st'.calls = <<>> /\ st'.subs = st.subs)
        /\ (lastOp = "set" /\ st'.arg = st.arg) => st'.calls = <<>>
    ]_vars

NoOpWriteWitness ==
  /\ impl = "stores"
  /\ lastOp = "set"
  /\ st.arg = <<"a", 2>>
  /\ st.calls = <<>>
  /\ st.val.b = 3
  /\ \E i, j \in DOMAIN st.subs :
       st.subs[i].store = "a" /\ st.subs[j].store = "prod"

\* C26 (synchronous notification): a set() that changes the value calls,
\* before it returns, every subscriber of the store with the new value, in
\* the order in which they subscribed, and likewise every subscriber of each
\* derived store whose value changed; no other operation than set() and
\* subscribe() calls a subscriber, so no call is left for later.
CallsTo(calls, store) == SelectSeq(calls, LAMBDA c : c.store = store)

DisposedNeverCalled ==
  (impl = "stores") =>
    \A j \in DOMAIN st.calls : \A d \in st.disposed : st.calls[j].cb # d.cb

DisposedNeverCalledWitness ==
  /\ impl = "stores"
  /\ lastOp = "set"
  /\ st.disposed = {[cb |-> "cb1", store |-> "prod"]}
  /\ st.calls = <<[cb |-> "cb2", store |-> "prod", value |-> 9]>>

\* C28 (hosted subscription): the host holds one subscription to each
\* selected store while it is attached and none while it is detached; its
\* callback runs only while it is attached and only for a selected store;
\* connecting calls it once per selected store with the current value, and
\* while attached it has received the current value of each selected store.
HostSubscriptions(store) ==
  {i \in DOMAIN st.subs : st.subs[i].cb = "host" /\ st.subs[i].store = store}

HostedWhileAttached ==
  (impl \in {"stores", "context"}) =>
    /\ \A k \in DOMAIN HostStores :
         /\ Cardinality(HostSubscriptions(HostStores[k])) =
              IF st.host.attached THEN 1 ELSE 0
         /\ \A i \in HostSubscriptions(HostStores[k]) :
              st.subs[i].got = StoreGet(st.val, HostStores[k])
         /\ lastOp = "hostConnected" =>
              /\ Len(st.calls) = Len(HostStores)
              /\ st.calls[k] = [cb |-> "host", store |-> HostStores[k],
                                value |-> StoreGet(st.val, HostStores[k])]
    /\ \A j \in DOMAIN st.calls :
         st.calls[j].cb = "host" =>
           /\ st.host.attached
           /\ \E k \in DOMAIN HostStores : HostStores[k] = st.calls[j].store
    /\ \A i \in DOMAIN st.subs :
         st.subs[i].cb = "host" =>
           \E k \in DOMAIN HostStores : HostStores[k] = st.subs[i].store

HostedWhileAttachedWitness ==
  /\ impl = "stores"
  /\ lastOp = "set"
  /\ st.host.attached
  /\ st.host.connects = 2
  /\ st.calls = <<[cb |-> "host", store |-> "a", value |-> 3]>>

\* C29 (derived view fields): after every operation isVideoView is true
\* exactly when viewType is video and isAudioView exactly when viewType is
\* audio, in the context and in the values the attached consumer has
\* received; the two are never true together.
DerivedViewConsistent ==
  (impl = "context") =>
    /\ StoreGet(st.val, "isVideoView") = (st.val.viewType = "video")
    /\ StoreGet(st.val, "isAudioView") = (st.val.viewType = "audio")
    /\ ~(StoreGet(st.val, "isVideoView") /\ StoreGet(st.val, "isAudioView"))
    /\ \A i \in DOMAIN st.subs :
         /\ st.subs[i].store = "isVideoView" =>
              st.subs[i].got = (st.val.viewType = "video")
         /\ st.subs[i].store = "isAudioView" =>
              st.subs[i].got = (st.val.viewType = "audio")
         /\ st.subs[i].store = "viewType" =>
              st.subs[i].got = st.val.viewType

DerivedViewConsistentWitness ==
  /\ impl = "context"
  /\ lastOp = "set"
  /\ st.arg = <<"viewType", "video">>
  /\ st.host.attached
  /\ Len(st.calls) = 2
  /\ st.calls[1] = [cb |-> "host", store |-> "viewType", value |-> "video"]
  /\ st.calls[2] = [cb |-> "host", store |-> "isVideoView", value |-> TRUE]

\* C30 (bufferedAmount): after every operation bufferedAmount, in the
\* context and as received by the attached consumer, is the end of the last
\* buffered range, capped by the duration when the duration is known: 0
\* without a range, 15 for [[0,15]] with duration 15 and with duration 25,
\* and 15 then 20 for [[0,0],[15,20]] with durations 15 and 25.
LastEnd(buffered) ==
  IF buffered = <<>> THEN 0 ELSE buffered[Len(buffered)][2]

BufferedAmountCapped ==
  (impl = "context") =>
    LET amount == StoreGet(st.val, "bufferedAmount")
        end == LastEnd(st.val.buffered)
    IN /\ amount = IF st.val.duration # NaN /\ st.val.duration < end
                   THEN st.val.duration ELSE end
       /\ (st.val.buffered = <<<<0, 15>>>> /\ st.val.duration \in {15, 25}) =>
            amount = 15
       /\ (st.val.buffered = <<<<0, 0>>, <<15, 20>>>> /\ st.val.duration = 15) =>
            amount = 15
       /\ (st.val.buffered = <<<<0, 0>>, <<15, 20>>>> /\ st.val.duration = 25) =>
            amount = 20
       /\ \A i \in DOMAIN st.subs :
            st.subs[i].store = "bufferedAmount" => st.subs[i].got = amount

BufferedAmountCappedWitness ==
  /\ impl = "context"
  /\ lastOp = "set"
  /\ st.arg = <<"duration", 25>>
  /\ st.val.buffered = <<<<0, 15>>>>
  /\ st.host.attached
  /\ \E i \in DOMAIN st.subs :
       st.subs[i].store = "bufferedAmount" /\ st.subs[i].got = 15

\* C31 (reads before ready): while canPlay is false a read of paused,
\* currentTime, volume or muted returns true, 0, 1 (100 hundredths) and
\* false, whatever the context holds, and performs no engine operation.
ReadsBeforeReady ==
  (impl \in {"media", "core"} /\ ~ctx.canPlay) =>
    /\ getProperty(ctx, "paused").value = TRUE
    /\ getProperty(ctx, "currentTime").value = 0
    /\ getProperty(ctx, "volume").value = 100
    /\ getProperty(ctx, "muted").value = FALSE
    /\ lastOp = "get" => engine = <<>>

ReadsBeforeReadyWitness ==
  /\ impl = "media"
  /\ lastOp = "get"
  /\ ~ctx.canPlay
  /\ ctx.volume = 53
  /\ ctx.muted
  /\ engine = <<>>

\* C32: when the fullscreen or screen orientation API is unavailable,
\* requestFullscreen(), exitFullscreen(), lockOrientation() and
\* unlockOrientation() are rejected, no engine operation is made with the
\* API unavailable, and a rejected call leaves the readiness state, the
\* context and the request queue as they were.
UnavailableApiRejects ==
  [][
     /\ \A vt \in ViewTypes :
          throwIfNoFullscreenSupport([ctx EXCEPT !.viewType = vt], FALSE)
     /\ throwIfScreenOrientationUnavailable(FALSE)
     /\ (lastOp' \in ApiMethods /\ engine' # <<>>) => engine'[1].flag
     /\ lastOp' = "rejected" =>
           /\ engine' = <<>>
           /\ UNCHANGED <<ctx, q, cq, connected, hasFlushedOnce,
                          flushResolved, inflight>>
  ]_vars

UnavailableApiRejectsWitness ==
  /\ impl = "core" /\ lastOp = "rejected"
  /\ ctx.viewType = "video" /\ ~ctx.canPlay
  /\ q.entries # <<>>

\* C33: the controller references at most one provider and never a stale
\* one: after a provider connects it is the referenced provider and writes
\* into the controller's context record; after it disconnects it is no
\* longer referenced; the referenced provider is attached; a provider that
\* is not referenced shares no context record with the controller and has
\* no forwarded listener.
NoStaleProvider ==
  impl = "controller" =>
    /\ lastOp = "providerConnect" => st.mediaProvider = st.arg
    /\ lastOp = "providerDisconnect" => st.mediaProvider # st.arg
    /\ st.mediaProvider # "none" =>
         /\ st.attached[st.mediaProvider]
         /\ st.ctxOf[st.mediaProvider] = "controller"
         /\ st.mediaProvider \in st.listeners
    /\ \A element \in Providers :
         element # st.mediaProvider =>
           /\ st.ctxOf[element] = "own"
           /\ element \notin st.listeners

NoStaleProviderWitness ==
  /\ impl = "controller" /\ lastOp = "providerConnect"
  /\ st.mediaProvider = "B" /\ st.attached["A"] /\ st.onDisconnect["A"]
  /\ st.ctxOf["A"] = "own"

\* C34: readiness and queue mode agree: between handlers, the media
\* provider's canPlay is true exactly when its media request queue is in
\* pass-through mode.
ReadinessAgreesWithQueueMode ==
  impl = "media" => (ctx.canPlay <=> q.serveImmediately)

\* C35: a media provider that was disconnected and connected again still
\* follows the readiness protocol: an intent set on the connected provider
\* is invoked at once or is pending in the queue for the next readiness
\* signal, and a disconnect makes the next source change the first one.
ReconnectKeepsIntents ==
  [][ impl = "media" =>
        /\ (connected /\ lastOp' \in SetterOps) =>
             (invoked' # <<>> \/ RQ_size(q') > 0)
        /\ lastOp' = "disconnectedCallback" => ~hasFlushedOnce'
    ]_vars

\* C36: flush waiting is re-armed for every source-load cycle: a caller of
\* the core provider that starts waiting while the provider is not ready is
\* not released by that call; it waits for the flush of the current cycle
\* or for the disconnect.
FlushWaitRearmed ==
  (impl = "core" /\ lastOp = "waitForRequestQueueToFlush" /\ ~ctx.canPlay) =>
    \A w \in WaiterIds : waiters[w] # "released"

\* C37: no pending intent is lost: an entry leaves the core provider's
\* request queue only in a step that invokes it, in a step that invokes a
\* newer request under its key, on disconnect, or, for an asynchronous
\* request that a flush has invoked, when that flush ends.
NoPendingIntentLost ==
  [][ impl = "core" =>
        \A i \in DOMAIN q.entries :
          LET e == q.entries[i] IN
            MapGet(q'.entries, e.key) = <<>> =>
              \/ \E j \in DOMAIN invoked' : invoked'[j].key = e.key
              \/ lastOp' = "disconnectedCallback"
              \/ /\ lastOp' = "flushRequestQueue (resumed)"
                 /\ IsAsync(e.fn)
    ]_vars

\* C38: after a validation of the ended state, ended is true exactly when
\* the duration is known and not zero and the readable current time,
\* rounded to tenths of a second, is within one tenth of the duration; a
\* change of ended from false to true clears waiting and dispatches an ended
\* event; no error event is dispatched while the context holds no error.
EndedValidation ==
  [][ lastOp' = "validatePlaybackEndedState" =>
        /\ ctx'.ended <=> hasPlaybackRoughlyEnded(ctx')
        /\ (~ctx.ended /\ ctx'.ended) =>
             /\ ~ctx'.waiting
             /\ \E i \in DOMAIN engine' : engine'[i].op = "vds-ended"
        /\ ctx'.error = "none" =>
             \A i \in DOMAIN engine' : engine'[i].op # "vds-error"
    ]_vars

\* C39: script loading is single-flight per URL: at most one script element
\* exists for a src, and a caller is resolved only once the element of its
\* src has loaded and rejected only once it has failed.
SingleFlightLoad ==
  impl = "loader" =>
    /\ \A i, j \in DOMAIN st.scripts :
         st.scripts[i].src = st.scripts[j].src => i = j
    /\ \A c \in DOMAIN st.callers :
         /\ st.callers[c].state = "resolved" =>
              \E i \in DOMAIN st.scripts :
                /\ st.scripts[i].src = st.callers[c].src
                /\ st.scripts[i].state = "loaded"
         /\ st.callers[c].state = "rejected" =>
              \E i \in DOMAIN st.scripts :
                /\ st.scripts[i].src = st.callers[c].src
                /\ st.scripts[i].state = "failed"

\* C40: with pauseWhileDragging enabled, the scrubber requests play at the
\* end of a drag only if media was playing when that drag started and the
\* scrubber requested the pause then.
PlayOnlyAfterOwnPause ==
  (impl = "scrubber" /\ lastOp = "handleSliderDragEnd"
     /\ st.requests = <<"play">>) => st.pausedAtDragStart

====
